---- MODULE Spec2Model ----
(***************************************************************************)
(* Filing acquisition and caching pipeline of mcp-edgar-ux:                *)
(*   adapters/filesystem.py  FilesystemCache   (path mapping, get, save)   *)
(*   adapters/edgar.py       EdgarAdapter      (list_available, get_latest)*)
(*   core/services.py        FetchFilingService, SearchFilingService       *)
(*   adapters/mcp/handlers.py MCPHandlers      (fetch_filing, search)      *)
(*                                                                         *)
(* Python strings are modelled as sequences of one-character strings, so   *)
(* that str.upper(), string comparison and path joining are computed and   *)
(* not assumed.                                                            *)
(***************************************************************************)
EXTENDS Integers, Sequences, FiniteSets, TLC

VARIABLES
    p_args,      \* SpecPath: arguments of the last _get_path call
    p_path,      \* SpecPath: the path it returned
    l_hist,      \* SpecList: company.get_filings() listing
    l_feed,      \* SpecList: get_current_filings() feed
    l_call,      \* SpecList: arguments of the last fetcher call
    l_result,    \* SpecList: what the call returned
    up_hist,     \* Spec: the company's filings in the upstream historical index
    up_recent,   \* Spec: the company's filings in the recent-filings feed
    up_ver,      \* Spec: how many filings the upstream has published since Init
    files,       \* Spec: the files under the cache root, as <<path, content>>
    dirs,        \* Spec: the directories that exist, cache root included
    req,         \* Spec: the tool calls, each with its locals and position
    current_filings_cache, \* Spec: _current_filings_cache, key -> cached value
    s_file,      \* SpecSearch: the lines of the searched file
    s_call,      \* SpecSearch: arguments of the last search call
    s_result,    \* SpecSearch: what the call returned
    c_files,     \* SpecCache: the files under the cache root, as <<path, content>>
    c_dirs,      \* SpecCache: the directories that exist
    c_call,      \* SpecCache: the last FilesystemCache call and its arguments
    c_result,    \* SpecCache: what the call returned
    t_call,      \* SpecTool: the last tool call and what happened below it
    t_result     \* SpecTool: what the handler did

VARIABLES
    e_files,      \* SpecExec: the files under the cache root
    e_dirs,       \* SpecExec: the directories under the cache root
    e_call,       \* SpecExec: the last service call
    e_result      \* SpecExec: what it did

VARIABLES
    w_futures,     \* SpecFan: the state of the future of each per-form query
    w_all_filings, \* SpecFan: the forms whose listings were added to all_filings
    w_pc           \* SpecFan: where list_available is in the executor block

VARIABLES
    g_now,        \* SpecTtl: time.time()
    g_ticks,      \* SpecTtl: how often the clock has advanced
    g_feed,       \* SpecTtl: what the recent-filings feed lists
    g_cache,      \* SpecTtl: _current_filings_cache.cache
    g_timestamps, \* SpecTtl: _current_filings_cache.timestamps
    g_call,       \* SpecTtl: the last list_available(None, ...) and what it found
    g_result      \* SpecTtl: what that call did

VARIABLES
    k_cache,      \* SpecRace: _current_filings_cache.cache[key], if there is one
    k_timestamps, \* SpecRace: _current_filings_cache.timestamps[key], if there is one
    k_now,        \* SpecRace: time.time()
    k_ticks,      \* SpecRace: how often the clock has advanced
    k_thread      \* SpecRace: each request's position in get/set and its locals

VARIABLES
    d_file,       \* SpecWrite: the artifact at the path of the key, if it exists
    d_thread      \* SpecWrite: each request's position in execute and its locals

pathVars == <<p_args, p_path>>
listVars == <<l_hist, l_feed, l_call, l_result>>
mainVars == <<up_hist, up_recent, up_ver, files, dirs, req, current_filings_cache>>
searchVars == <<s_file, s_call, s_result>>
cacheVars == <<c_files, c_dirs, c_call, c_result>>
toolVars == <<t_call, t_result>>
ttlVars == <<g_now, g_ticks, g_feed, g_cache, g_timestamps, g_call, g_result>>
execVars == <<e_files, e_dirs, e_call, e_result>>
fanVars == <<w_futures, w_all_filings, w_pc>>
raceVars == <<k_cache, k_timestamps, k_now, k_ticks, k_thread>>
writeVars == <<d_file, d_thread>>
vars == <<pathVars, listVars, mainVars, searchVars, cacheVars, toolVars, ttlVars, execVars, fanVars,
          raceVars, writeVars>>

\* the variables outside one group
notPath == <<listVars, mainVars, searchVars, cacheVars, toolVars, ttlVars, execVars, fanVars,
    raceVars, writeVars>>
notList == <<pathVars, mainVars, searchVars, cacheVars, toolVars, ttlVars, execVars, fanVars,
    raceVars, writeVars>>
notMain == <<pathVars, listVars, searchVars, cacheVars, toolVars, ttlVars, execVars, fanVars,
    raceVars, writeVars>>
notSearch == <<pathVars, listVars, mainVars, cacheVars, toolVars, ttlVars, execVars, fanVars,
    raceVars, writeVars>>
notTool == <<pathVars, listVars, mainVars, searchVars, cacheVars, ttlVars, execVars, fanVars,
    raceVars, writeVars>>
notTtl == <<pathVars, listVars, mainVars, searchVars, cacheVars, toolVars, execVars, fanVars,
    raceVars, writeVars>>
notExec == <<pathVars, listVars, mainVars, searchVars, cacheVars, toolVars, ttlVars, fanVars,
    raceVars, writeVars>>
notFan == <<pathVars, listVars, mainVars, searchVars, cacheVars, toolVars, ttlVars, execVars,
    raceVars, writeVars>>
notCache == <<pathVars, listVars, mainVars, searchVars, toolVars, ttlVars, execVars, fanVars,
    raceVars, writeVars>>
notRace == <<pathVars, listVars, mainVars, searchVars, cacheVars, toolVars, ttlVars, execVars,
    fanVars, writeVars>>
notWrite == <<pathVars, listVars, mainVars, searchVars, cacheVars, toolVars, ttlVars, execVars,
    fanVars, raceVars>>

\* Optional values: <<>> is None, <<v>> is the value v
None == <<>>
Some(v) == <<v>>
Get(o) == o[1]

(***************************************************************************)
(* Strings                                                                 *)
(***************************************************************************)

\* The characters used, in code-point order (the order Python compares by).
Alphabet ==
    << " ", "-", ".", "/",
       "0", "1", "2", "3", "4", "5", "6", "7", "8", "9",
       "A", "B", "C", "D", "E", "F", "G", "H", "I", "J", "K", "L", "M",
       "N", "O", "P", "Q", "R", "S", "T", "U", "V", "W", "X", "Y", "Z",
       "a", "b", "c", "d", "e", "f", "g", "h", "i", "j", "k", "l", "m",
       "n", "o", "p", "q", "r", "s", "t", "u", "v", "w", "x", "y", "z" >>

Chars == {Alphabet[i] : i \in 1..Len(Alphabet)}

\* ord(c)
OrdTable == [c \in Chars |-> CHOOSE i \in 1..Len(Alphabet) : Alphabet[i] = c]
Ord(c) == OrdTable[c]

LowerLetters == SubSeq(Alphabet, 41, 66)
UpperLetters == SubSeq(Alphabet, 15, 40)

\* str.upper() on one character
UpperTable ==
    [c \in Chars |->
        IF \E i \in 1..Len(LowerLetters) : LowerLetters[i] = c
        THEN UpperLetters[CHOOSE i \in 1..Len(LowerLetters) : LowerLetters[i] = c]
        ELSE c]
UpperChar(c) == UpperTable[c]

\* str.upper()
Upper(s) == [i \in 1..Len(s) |-> UpperChar(s[i])]

\* s1 < s2, the comparison of Python strings (lexicographic by code point)
RECURSIVE StrLess(_, _)
StrLess(s1, s2) ==
    IF s2 = <<>> THEN FALSE
    ELSE IF s1 = <<>> THEN TRUE
    ELSE IF Ord(Head(s1)) < Ord(Head(s2)) THEN TRUE
    ELSE IF Ord(Head(s1)) > Ord(Head(s2)) THEN FALSE
    ELSE StrLess(Tail(s1), Tail(s2))

\* s1 >= s2
StrGeq(s1, s2) == ~StrLess(s1, s2)

(***************************************************************************)
(* pathlib.Path: a path is the sequence of its parts                       *)
(***************************************************************************)

\* The parts of a relative segment: split at "/", empty parts dropped.
RECURSIVE SplitParts(_, _)
SplitParts(s, acc) ==
    IF s = <<>> THEN (IF acc = <<>> THEN <<>> ELSE <<acc>>)
    ELSE IF Head(s) = "/"
         THEN (IF acc = <<>> THEN <<>> ELSE <<acc>>) \o SplitParts(Tail(s), <<>>)
         ELSE SplitParts(Tail(s), Append(acc, Head(s)))

\* Path.__truediv__: an absolute segment replaces the path
PathJoin(p, s) ==
    IF s # <<>> /\ Head(s) = "/"
    THEN << <<"/">> >> \o SplitParts(s, <<>>)
    ELSE p \o SplitParts(s, <<>>)

\* str(path)
RECURSIVE PathStr(_)
PathStr(p) ==
    IF p = <<>> THEN <<>>
    ELSE IF Len(p) = 1 THEN p[1]
    ELSE IF p[1] = <<"/">> THEN <<"/">> \o PathStr(Tail(p))
    ELSE p[1] \o <<"/">> \o PathStr(Tail(p))

\* FilesystemCache.cache_dir
cache_dir == << <<"r", "o", "o", "t">> >>

Formats == {"text", "markdown", "html"}

\* the extension table of _get_path
Ext ==
    [ markdown |-> <<".", "m", "d">>,
      text     |-> <<".", "t", "x", "t">>,
      html     |-> <<".", "h", "t", "m", "l">> ]

\* FilesystemCache._ensure_dir: the directory of a (ticker, form type)
EnsureDirPathNoUpper(ticker, form_type) ==
    PathJoin(PathJoin(cache_dir, Upper(ticker)), form_type)

EnsureDirPath(ticker, form_type) ==
    PathJoin(PathJoin(cache_dir, Upper(ticker)), Upper(form_type))

\* FilesystemCache._get_path (format is one of Formats: any other raises)
GetPathOneExt(ticker, form_type, filing_date, format) ==
    PathJoin(EnsureDirPath(ticker, form_type), filing_date \o Ext["text"])

GetPath(ticker, form_type, filing_date, format) ==
    PathJoin(EnsureDirPath(ticker, form_type), filing_date \o Ext[format])

(***************************************************************************)
(* SpecPath: _get_path applied to bounded inputs                           *)
(***************************************************************************)

PTickers == { <<"t">>, <<"T">>, <<"t", "S">>, <<"T", "s">>, <<"t", "s">> }
PForms ==
    { <<"1", "0", "-", "K">>, <<"1", "0", "-", "k">>,
      <<"1", "0", "-", "K", "/", "A">>, <<"1", "0", "-", "k", "/", "a">>,
      <<"a", "l", "l">> }
PDates == { <<"0", "9">>, <<"1", "0">>, <<"1", "1">> }

InitPathVars ==
    /\ p_args = None
    /\ p_path = None

DerivePath ==
    \E t \in PTickers, f \in PForms, d \in PDates, fmt \in Formats :
        /\ p_args' = Some([ticker |-> t, form_type |-> f, filing_date |-> d, format |-> fmt])
        /\ p_path' = GetPath(t, f, d, fmt)
        /\ UNCHANGED notPath

(***************************************************************************)
(* EdgarAdapter: listing and selection. An upstream (edgartools) filing is *)
(* a record [accession_number, form, filing_date, cik] whose filing_date   *)
(* is a date object [y, m, d]; a domain Filing carries the date as the     *)
(* string strftime('%Y-%m-%d') makes of it.                                *)
(***************************************************************************)

Digits == SubSeq(Alphabet, 5, 14)
Digit(n) == Digits[n + 1]

\* '%02d' and '%04d'
TwoDigits(n) == << Digit((n \div 10) % 10), Digit(n % 10) >>
FourDigits(n) == TwoDigits(n \div 100) \o TwoDigits(n % 100)

\* filing_date.strftime('%Y-%m-%d')
DateStr(dt) == FourDigits(dt.y) \o <<"-">> \o TwoDigits(dt.m) \o <<"-">> \o TwoDigits(dt.d)

\* str(cik) of a one-digit entity id
CikStr(cik) == << Digit(cik) >>

F10K == <<"1", "0", "-", "K">>
F10KA == <<"1", "0", "-", "K", "/", "A">>
F10Q == <<"1", "0", "-", "Q">>
F10QA == <<"1", "0", "-", "Q", "/", "A">>
F20F == <<"2", "0", "-", "F">>
F20FA == <<"2", "0", "-", "F", "/", "A">>
F6K == <<"6", "-", "K">>
F6KA == <<"6", "-", "K", "/", "A">>
F8K == <<"8", "-", "K">>
F8KA == <<"8", "-", "K", "/", "A">>
FS1 == <<"S", "-", "1">>
FS1A == <<"S", "-", "1", "/", "A">>
FS3 == <<"S", "-", "3">>
FS3A == <<"S", "-", "3", "/", "A">>
FS4 == <<"S", "-", "4">>
FS4A == <<"S", "-", "4", "/", "A">>
FS4POS == <<"S", "-", "4", " ", "P", "O", "S">>
ALL == <<"A", "L", "L">>
CORE == <<"C", "O", "R", "E">>
UNKNOWN == <<"U", "N", "K", "N", "O", "W", "N">>

CORE_FORM_TYPES ==
    { F10K, F10KA, F10Q, F10QA, F20F, F20FA, F6K, F6KA,
      F8K, F8KA, FS1, FS1A, FS3, FS3A, FS4, FS4A }

\* the form filter handed to edgartools: '' for 'ALL' and 'CORE'
EdgarFormType(form_type) == IF form_type \in {ALL, CORE} THEN <<>> ELSE form_type

\* to_domain_filing: the Filing of an upstream filing, under the request's ticker
ToDomainFiling(f, ticker) ==
    [ ticker           |-> Upper(ticker),
      form_type        |-> f.form,
      filing_date      |-> DateStr(f.filing_date),
      accession_number |-> f.accession_number,
      cik              |-> Some(CikStr(f.cik)) ]

\* _get_cik_to_ticker_mapping: entity id -> upper-case ticker
TickerToCik == [t \in { <<"t", "s", "l", "a">> } |-> 1]
CikToTicker == [c \in {TickerToCik[t] : t \in DOMAIN TickerToCik} |->
                  Upper(CHOOSE t \in DOMAIN TickerToCik : TickerToCik[t] = c)]

\* to_domain_filing_no_ticker: the ticker is looked up from the entity id
ToDomainFilingNoTicker(f) ==
    LET cik == IF f.cik >= 0 THEN Some(f.cik) ELSE None
        truthy == cik # None /\ Get(cik) # 0
    IN  [ ticker           |-> IF truthy /\ Get(cik) \in DOMAIN CikToTicker
                                   THEN CikToTicker[Get(cik)]
                               ELSE IF truthy THEN CikStr(Get(cik))
                               ELSE UNKNOWN,
          form_type        |-> f.form,
          filing_date      |-> DateStr(f.filing_date),
          accession_number |-> f.accession_number,
          cik              |-> IF truthy THEN Some(CikStr(Get(cik))) ELSE None ]

Range(seq) == {seq[i] : i \in 1..Len(seq)}

\* result.sort(key=filing_date, reverse=True): stable, newest first
RECURSIVE InsertDesc(_, _)
InsertDesc(sorted, x) ==
    IF sorted = <<>> THEN <<x>>
    ELSE IF StrLess(Head(sorted).filing_date, x.filing_date) THEN <<x>> \o sorted
    ELSE <<Head(sorted)>> \o InsertDesc(Tail(sorted), x)

RECURSIVE SortInto(_, _)
SortInto(sorted, rest) ==
    IF rest = <<>> THEN sorted
    ELSE SortInto(InsertDesc(sorted, Head(rest)), Tail(rest))

NoSort(seq) == seq

SortByDateDesc(seq) == SortInto(<<>>, seq)

\* the merge of lines 284-297: historical filings, then the recent filings
\* whose accession number was not seen
RECURSIVE AddCurrent(_, _, _, _)
AddCurrent(result, seen_accessions, current, ticker) ==
    IF current = <<>> THEN result
    ELSE IF Head(current).accession_number \in seen_accessions
         THEN AddCurrent(result, seen_accessions, Tail(current), ticker)
         ELSE AddCurrent(Append(result, ToDomainFiling(Head(current), ticker)),
                         seen_accessions \cup {Head(current).accession_number},
                         Tail(current), ticker)

MergeNoDedup(historical_filings, current_for_company, ticker) ==
    [i \in 1..Len(historical_filings) |-> ToDomainFiling(historical_filings[i], ticker)]
        \o [i \in 1..Len(current_for_company) |-> ToDomainFiling(current_for_company[i], ticker)]

MergeListings(historical_filings, current_for_company, ticker) ==
    LET result == [i \in 1..Len(historical_filings) |->
                      ToDomainFiling(historical_filings[i], ticker)]
    IN  AddCurrent(result, {f.accession_number : f \in Range(result)},
                   current_for_company, ticker)

\* a deduplication that tells the filings of one date apart by form type
RECURSIVE DedupByDateAndForm(_, _)
DedupByDateAndForm(seq, seen_dates) ==
    LET key == <<Head(seq).form_type, Head(seq).filing_date>> IN
    IF seq = <<>> THEN <<>>
    ELSE IF key \in seen_dates THEN DedupByDateAndForm(Tail(seq), seen_dates)
    ELSE <<Head(seq)>> \o DedupByDateAndForm(Tail(seq), seen_dates \cup {key})

\* keep the first filing of each filing date
RECURSIVE DedupByDate(_, _)
DedupByDate(seq, seen_dates) ==
    IF seq = <<>> THEN <<>>
    ELSE IF Head(seq).filing_date \in seen_dates THEN DedupByDate(Tail(seq), seen_dates)
    ELSE <<Head(seq)>> \o DedupByDate(Tail(seq), seen_dates \cup {Head(seq).filing_date})

\* a deduplication that keeps the last filing of each triple
RECURSIVE DedupByTripleKeepLast(_, _)
DedupByTripleKeepLast(seq, seen) ==
    LET key == <<Head(seq).ticker, Head(seq).form_type, Head(seq).filing_date>> IN
    IF seq = <<>> THEN <<>>
    ELSE IF \/ key \in seen
            \/ \E j \in 2..Len(seq) :
                  <<seq[j].ticker, seq[j].form_type, seq[j].filing_date>> = key
         THEN DedupByTripleKeepLast(Tail(seq), seen)
    ELSE <<Head(seq)>> \o DedupByTripleKeepLast(Tail(seq), seen)

\* keep the first filing of each (ticker, form_type, filing_date)
RECURSIVE DedupByTriple(_, _)
DedupByTriple(seq, seen) ==
    LET key == <<Head(seq).ticker, Head(seq).form_type, Head(seq).filing_date>> IN
    IF seq = <<>> THEN <<>>
    ELSE IF key \in seen THEN DedupByTriple(Tail(seq), seen)
    ELSE <<Head(seq)>> \o DedupByTriple(Tail(seq), seen \cup {key})

\* a core filter that lets every filing through
CoreFilterSkipped(seq) == seq

\* [f for f in result if f.form_type in CORE_FORM_TYPES]
RECURSIVE CoreOnly(_)
CoreOnly(seq) ==
    IF seq = <<>> THEN <<>>
    ELSE IF Head(seq).form_type \in CORE_FORM_TYPES THEN <<Head(seq)>> \o CoreOnly(Tail(seq))
    ELSE CoreOnly(Tail(seq))

\* current_for_company = [f for f in current_filings if f.cik == int(company.cik)]
RECURSIVE CurrentForCompany(_, _)
CurrentForCompany(current_filings, cik) ==
    IF current_filings = <<>> THEN <<>>
    ELSE IF Head(current_filings).cik = cik
         THEN <<Head(current_filings)>> \o CurrentForCompany(Tail(current_filings), cik)
    ELSE CurrentForCompany(Tail(current_filings), cik)

\* list_available with a ticker, from the two upstream listings
ListAvailableTicker(ticker, form_type, historical_filings, current_for_company) ==
    LET merged == MergeListings(historical_filings, current_for_company, ticker)
        result == IF form_type = CORE THEN CoreOnly(merged) ELSE merged
    IN  DedupByDate(SortByDateDesc(result), {})

\* list_available without a ticker, from the recent-filings feed
ListAvailableGlobal(form_type, current_filings) ==
    LET converted == [i \in 1..Len(current_filings) |->
                         ToDomainFilingNoTicker(current_filings[i])]
        result == IF form_type = CORE THEN CoreOnly(converted) ELSE converted
    IN  DedupByTriple(SortByDateDesc(result), {})

\* `if date:` of an Optional[str]
Truthy(date) == date # None /\ Get(date) # <<>>

\* [f for f in filings if f.filing_date >= date]
RECURSIVE FilterByDate(_, _)
FilterByDate(filings, date) ==
    IF filings = <<>> THEN <<>>
    ELSE IF StrGeq(Head(filings).filing_date, date)
         THEN <<Head(filings)>> \o FilterByDate(Tail(filings), date)
    ELSE FilterByDate(Tail(filings), date)

NotFound == [ok |-> FALSE, filing |-> None]

SelectNewestMatch(filings, date) ==
    IF filings = <<>> THEN NotFound
    ELSE IF Truthy(date)
         THEN LET filtered == FilterByDate(filings, Get(date)) IN
              IF filtered = <<>> THEN NotFound
              ELSE [ok |-> TRUE, filing |-> Some(filtered[1])]
    ELSE [ok |-> TRUE, filing |-> Some(filings[1])]

SelectOldest(filings, date) ==
    IF filings = <<>> THEN NotFound
    ELSE IF Truthy(date)
         THEN LET filtered == FilterByDate(filings, Get(date)) IN
              IF filtered = <<>> THEN NotFound
              ELSE [ok |-> TRUE, filing |-> Some(filtered[Len(filtered)])]
    ELSE [ok |-> TRUE, filing |-> Some(filings[Len(filings)])]

\* get_latest, lines 340-357: the selection from the list of list_available
SelectLatest(filings, date) ==
    IF filings = <<>> THEN NotFound
    ELSE IF Truthy(date)
         THEN LET filtered == FilterByDate(filings, Get(date)) IN
              IF filtered = <<>> THEN NotFound
              ELSE [ok |-> TRUE, filing |-> Some(filtered[Len(filtered)])]
    ELSE [ok |-> TRUE, filing |-> Some(filings[1])]

(***************************************************************************)
(* SpecList: list_available and get_latest applied to bounded listings     *)
(***************************************************************************)

MaxHist == 2
MaxFeed == 1
MaxGlobalFeed == 2

AccUniverse == <<"0001-24-000001", "0001-24-000002", "0001-24-000003",
                 "0001-24-000004", "0001-24-000005", "0001-24-000006">>

LDates == { [y |-> 2023, m |-> 12, d |-> 31],
            [y |-> 2024, m |-> 1, d |-> 9],
            [y |-> 2024, m |-> 1, d |-> 10] }
LForms == { F10K, FS4POS }
\* an entity with no known ticker
OtherCik == 2
LTicker == <<"t", "s", "l", "a">>
LFormTypes == { F10K, CORE }
LFilters == { None, Some(<<>>),
              Some(<<"2", "0", "2", "4", "-", "0", "1", "-", "0", "9">>) }

SeqsUpTo(S, n) == UNION { [1..k -> S] : k \in 0..n }

\* Historical listings of the company: the i-th filing carries the i-th
\* accession number (accession numbers are unique within a listing).
HistListings ==
    { [i \in 1..Len(s) |->
          [accession_number |-> AccUniverse[i], form |-> s[i][1],
           filing_date |-> s[i][2], cik |-> TickerToCik[LTicker]]]
      : s \in SeqsUpTo(LForms \X LDates, MaxHist) }

\* Who filed what in the feed: the company again under the accession number
\* of its first historical filing, the company under a new accession number,
\* or another entity.
FeedFilers ==
    { [accession_number |-> AccUniverse[1], cik |-> TickerToCik[LTicker]],
      [accession_number |-> AccUniverse[MaxHist + 1], cik |-> TickerToCik[LTicker]],
      [accession_number |-> AccUniverse[MaxHist + 1], cik |-> OtherCik] }

\* get_current_filings(): the feed, or a failed call
FeedListings ==
    { [ok |-> FALSE, filings |-> <<>>] } \cup
    { [ok |-> TRUE, filings |->
          [i \in 1..Len(s) |->
              [accession_number |-> s[i][1].accession_number, form |-> s[i][2],
               filing_date |-> s[i][3], cik |-> s[i][1].cik]]]
      : s \in SeqsUpTo(FeedFilers \X LForms \X LDates, MaxFeed) }

\* The global feed: filings of entities with a known ticker, with no known
\* ticker, and with no usable entity id
GlobalFeeds ==
    { [ok |-> FALSE, filings |-> <<>>] } \cup
    { [ok |-> TRUE, filings |->
          [i \in 1..Len(s) |->
              [accession_number |-> AccUniverse[i], form |-> s[i][1],
               filing_date |-> s[i][2], cik |-> s[i][3]]]]
      : s \in SeqsUpTo(LForms \X LDates \X {0, TickerToCik[LTicker], OtherCik},
                       MaxGlobalFeed) }

InitListVars ==
    /\ \/ l_hist \in HistListings /\ l_feed \in FeedListings
       \/ l_hist = <<>> /\ l_feed \in GlobalFeeds
    /\ l_call = None
    /\ l_result = None

\* the recent filings of the company as list_available obtains them: the
\* except branches of lines 248-261 leave current_for_company = []
RecentOf(feed, cik) ==
    IF feed.ok THEN CurrentForCompany(feed.filings, cik) ELSE <<>>

\* a supplement whose failure fails the request
SupplementRaisesOnFailure(feed) == ~feed.ok

\* with a ticker, no failure of the feed leaves the try block of lines
\* 232-261: both except branches log and go on
SupplementRaises(feed) == FALSE

\* list_available(ticker, form_type)
CallListAvailableTicker ==
    /\ l_call = None
    /\ \E form_type \in LFormTypes :
        /\ l_call' = Some([op |-> "list_available", ticker |-> Some(LTicker),
                           form_type |-> form_type, date |-> None])
        /\ l_result' = Some([raised |-> SupplementRaises(l_feed),
                             filings |-> ListAvailableTicker(LTicker, form_type, l_hist,
                                             RecentOf(l_feed, TickerToCik[LTicker])),
                             latest |-> NotFound])
        /\ UNCHANGED <<l_hist, l_feed, notList>>

\* list_available(None, form_type) raises ValueError when the feed call of a
\* single form type fails; the fan-out of CORE swallows the failures of its
\* queries (lines 161-165)
GlobalRaises(feed, form_type) == ~feed.ok /\ form_type \notin {CORE, ALL}

\* list_available(None, form_type).
\* The ticker-less path does not read the company listing, so it is applied
\* where that listing is empty.
CallListAvailableGlobal ==
    /\ l_call = None
    /\ l_hist = <<>>
    /\ \E form_type \in LFormTypes :
        /\ l_call' = Some([op |-> "list_available", ticker |-> None,
                           form_type |-> form_type, date |-> None])
        /\ l_result' = Some([raised |-> GlobalRaises(l_feed, form_type),
                             filings |-> ListAvailableGlobal(form_type, l_feed.filings),
                             latest |-> NotFound])
        /\ UNCHANGED <<l_hist, l_feed, notList>>

\* get_latest(ticker, form_type, date)
CallGetLatestTicker ==
    /\ l_call = None
    /\ \E form_type \in LFormTypes, date \in LFilters :
        LET filings == ListAvailableTicker(LTicker, form_type, l_hist,
                                           RecentOf(l_feed, TickerToCik[LTicker]))
        IN  /\ l_call' = Some([op |-> "get_latest", ticker |-> Some(LTicker),
                               form_type |-> form_type, date |-> date])
            /\ l_result' = Some([raised |-> SupplementRaises(l_feed),
                                 filings |-> filings,
                                 latest |-> SelectLatest(filings, date)])
            /\ UNCHANGED <<l_hist, l_feed, notList>>

\* get_latest(None, form_type, date)
CallGetLatestGlobal ==
    /\ l_call = None
    /\ l_hist = <<>>
    /\ \E form_type \in LFormTypes, date \in LFilters :
        LET filings == ListAvailableGlobal(form_type, l_feed.filings)
        IN  /\ l_call' = Some([op |-> "get_latest", ticker |-> None,
                               form_type |-> form_type, date |-> date])
            /\ l_result' = Some([raised |-> GlobalRaises(l_feed, form_type),
                                 filings |-> filings,
                                 latest |-> IF GlobalRaises(l_feed, form_type) THEN NotFound
                                            ELSE SelectLatest(filings, date)])
            /\ UNCHANGED <<l_hist, l_feed, notList>>

(***************************************************************************)
(* FilesystemCache on a directory tree: dirs is the set of directories,    *)
(* files the set of <<path, content>> with one content per path.           *)
(***************************************************************************)

FilePaths(fs) == {e[1] : e \in fs}
ReadText(fs, path) == (CHOOSE e \in fs : e[1] = path)[2]

\* path.mkdir(parents=True, exist_ok=True)
Mkdir(ds, path) == ds \cup {SubSeq(path, 1, k) : k \in 1..Len(path)}

\* path.exists()
Exists(fs, ds, path) == path \in FilePaths(fs) \/ path \in ds

WriteTextIfAbsent(fs, path, content) ==
    IF path \in FilePaths(fs) THEN fs ELSE fs \cup {<<path, content>>}

\* path.write_text(content): creates the file or replaces what it holds
WriteText(fs, path, content) ==
    {e \in fs : e[1] # path} \cup {<<path, content>>}

\* path.stat().st_size of a file of one-byte characters
StatSize(fs, path) == Len(ReadText(fs, path))

\* the index of the last "." of a file name, 0 if there is none
LastDot(name) ==
    IF \E i \in 1..Len(name) : name[i] = "."
    THEN CHOOSE i \in 1..Len(name) :
            name[i] = "." /\ \A j \in (i + 1)..Len(name) : name[j] # "."
    ELSE 0

\* PurePath.suffix and PurePath.stem
Suffix(name) ==
    IF LastDot(name) > 1 /\ LastDot(name) < Len(name)
    THEN SubSeq(name, LastDot(name), Len(name)) ELSE <<>>
Stem(name) ==
    IF LastDot(name) > 1 /\ LastDot(name) < Len(name)
    THEN SubSeq(name, 1, LastDot(name) - 1) ELSE name

\* FilesystemCache.list_all(ticker, form_type) with both filters given: the
\* files two directory levels under the cache root whose directory names
\* equal the filters ignoring case and whose suffix is a known one
ListAll(fs, ds, ticker, form_type) ==
    IF cache_dir \notin ds THEN {}
    ELSE { [ ticker      |-> e[1][Len(cache_dir) + 1],
             form_type   |-> e[1][Len(cache_dir) + 2],
             filing_date |-> Stem(e[1][Len(cache_dir) + 3]),
             path        |-> e[1],
             size_bytes  |-> Len(e[2]),
             format      |-> Tail(Suffix(e[1][Len(cache_dir) + 3])) ]
           : e \in { x \in fs :
                       /\ Len(x[1]) = Len(cache_dir) + 3
                       /\ SubSeq(x[1], 1, Len(cache_dir)) = cache_dir
                       /\ Upper(x[1][Len(cache_dir) + 1]) = Upper(ticker)
                       /\ Upper(x[1][Len(cache_dir) + 2]) = Upper(form_type)
                       /\ Suffix(x[1][Len(cache_dir) + 3]) \in {Ext[f] : f \in Formats} } }

\* format_map of MCPHandlers.fetch_filing
format_map ==
    [ text     |-> <<"t", "x", "t">>,
      markdown |-> <<"m", "d">>,
      html     |-> <<"h", "t", "m", "l">> ]

(***************************************************************************)
(* The upstream provider seen by one company's requests                    *)
(***************************************************************************)

MaxRequests == 2
MaxPublished == 1

MTicker == <<"t", "s", "l", "a">>
MFormTypes == { F10K, ALL }
MFormats == { "text", "markdown" }
MFilters == { None, Some(<<"2", "0", "2", "4", "-", "0", "1", "-", "0", "9">>) }

UpFiling(n, form, y, m, d) ==
    [accession_number |-> AccUniverse[n], form |-> form,
     filing_date |-> [y |-> y, m |-> m, d |-> d], cik |-> TickerToCik[MTicker]]

\* the historical index at Init: empty, or one annual report
InitialHistory ==
    { <<>>, << UpFiling(1, F10K, 2023, 12, 31) >> }

\* the filings that appear in the recent-filings feed afterwards, in order
Publishable ==
    << UpFiling(3, F10K, 2024, 1, 10), UpFiling(4, F8K, 2024, 1, 10) >>

\* the form argument of get_filings and get_current_filings: '' or None
\* selects every form, a form type selects the filings of that form
FormMatches(form, edgar_form_type) ==
    edgar_form_type = <<>> \/ form = edgar_form_type

RECURSIVE UpstreamFilter(_, _)
UpstreamFilter(listing, edgar_form_type) ==
    IF listing = <<>> THEN <<>>
    ELSE IF FormMatches(Head(listing).form, edgar_form_type)
         THEN <<Head(listing)>> \o UpstreamFilter(Tail(listing), edgar_form_type)
    ELSE UpstreamFilter(Tail(listing), edgar_form_type)

\* the document the upstream renders for the download made by request i
Rendered(i) == [k \in 1..(i + 1) |-> IF k % 2 = 0 THEN "\n" ELSE "x"]

\* the keys of _current_filings_cache for the company: the form filter
CacheKeys == {EdgarFormType(f) : f \in MFormTypes}

\* list_available, lines 232-261: the company's current filings and the
\* cache afterwards. usable: the entry, if there is one, is younger than
\* stale_ttl_seconds (TTLCache.get deletes an older one); feed_ok: the
\* call of get_current_filings returns (otherwise the except branches)
CurrentFilings(cache, ticker, form_type, usable, feed_ok) ==
    LET key == EdgarFormType(form_type) IN
    IF cache[key] # None /\ usable
    THEN [current_for_company |-> Get(cache[key]), cache |-> cache]
    ELSE IF feed_ok
    THEN LET c == CurrentForCompany(UpstreamFilter(up_recent, key),
                                    TickerToCik[ticker])
         IN  [current_for_company |-> c,
              cache |-> [cache EXCEPT ![key] = Some(c)]]
    ELSE [current_for_company |-> <<>>,
          cache |-> [cache EXCEPT ![key] = None]]

\* EdgarAdapter.list_available(ticker, form_type) against the upstream now
ListAvailableNow(ticker, form_type, current_for_company) ==
    ListAvailableTicker(
        ticker, form_type,
        UpstreamFilter(up_hist, EdgarFormType(form_type)),
        current_for_company)

\* EdgarAdapter.get_latest(ticker, form_type, date)
GetLatest(ticker, form_type, date, current_for_company) ==
    SelectLatest(ListAvailableNow(ticker, form_type, current_for_company), date)

(***************************************************************************)
(* Spec: MCPHandlers.fetch_filing and search_filing, run in worker threads *)
(* (asyncio.to_thread), so their upstream and filesystem calls interleave. *)
(***************************************************************************)

Requests == 1..MaxRequests

IdleRequest ==
    [ kind |-> "fetch", ticker |-> <<>>, form_type |-> <<>>, date |-> None,
      format |-> "text", force_refetch |-> FALSE, pc |-> "idle",
      cached_dates |-> {},      \* fetch_filing: (filing_date, format) listed before the call
      s_filing |-> None,        \* SearchFilingService.execute: filing
      filing |-> None,          \* FetchFilingService.execute: filing
      cached_path |-> None,
      content |-> <<>>,
      size_bytes |-> 0,
      was_cached |-> FALSE,     \* the "cached" field of the fetch result
      listing |-> None,         \* the list the request's first get_latest selected from
      ver |-> 0,                \* up_ver at the last get_latest
      fetches |-> 0,            \* calls of fetcher.fetch
      writes |-> 0,             \* calls of write_text
      mkdirs |-> 0,             \* calls of _ensure_dir
      overwrote |-> FALSE,      \* the save replaced an existing file
      cold |-> FALSE,           \* no artifact of the resolved filing existed at get_latest
      alone |-> TRUE ]          \* no other request was in flight during this one

InFlight(r) == r.pc \notin {"idle", "done", "failed"}

InitMainVars ==
    /\ up_hist \in InitialHistory
    /\ up_recent = <<>>
    /\ up_ver = 0
    /\ files = {}
    /\ dirs = {}
    /\ req = [i \in Requests |-> IdleRequest]
    /\ current_filings_cache = [k \in CacheKeys |-> None]

IdleMainVars ==
    /\ up_hist = <<>>
    /\ up_recent = <<>>
    /\ up_ver = 0
    /\ files = {}
    /\ dirs = {}
    /\ req = <<>>
    /\ current_filings_cache = <<>>

\* the path the artifact of a resolved filing is saved to (save, lines 38-44)
SavePath(r) ==
    GetPath(Get(r.filing).ticker, Get(r.filing).form_type,
            Get(r.filing).filing_date, r.format)

\* the path the cache check consults (execute, line 46)
CheckPath(r) ==
    GetPath(r.ticker, r.form_type, Get(r.filing).filing_date, r.format)

\* the upstream publishes one more filing in the recent-filings feed
Publish ==
    /\ up_ver < MaxPublished
    /\ up_ver < Len(Publishable)
    /\ up_recent' = Append(up_recent, Publishable[up_ver + 1])
    /\ up_ver' = up_ver + 1
    /\ UNCHANGED <<up_hist, files, dirs, req, current_filings_cache, notMain>>

\* a tool call arrives
Start(i) ==
    /\ req[i].pc = "idle"
    /\ i > 1 => req[i - 1].pc # "idle"
    /\ \E kind \in {"fetch", "search"}, form_type \in MFormTypes, date \in MFilters,
          format \in MFormats, force_refetch \in BOOLEAN :
          /\ kind = "search" => (~force_refetch /\ format = "text")
          /\ LET quiet == \A j \in Requests : ~InFlight(req[j])
             IN  req' = [j \in Requests |->
                    IF j = i
                    THEN [IdleRequest EXCEPT
                            !.kind = kind, !.ticker = MTicker, !.form_type = form_type,
                            !.date = date, !.format = format,
                            !.force_refetch = force_refetch,
                            !.pc = IF kind = "fetch" THEN "list_all" ELSE "s_resolve",
                            !.alone = quiet]
                    ELSE IF InFlight(req[j]) THEN [req[j] EXCEPT !.alone = FALSE]
                    ELSE req[j]]
    /\ UNCHANGED <<up_hist, up_recent, up_ver, files, dirs, current_filings_cache, notMain>>

\* fetch_filing, lines 30-38: the cached (filing_date, format) pairs
HandlerListAll(i) ==
    /\ req[i].pc = "list_all"
    /\ req' = [req EXCEPT
          ![i].cached_dates =
              {<<c.filing_date, c.format>> :
                  c \in ListAll(files, dirs, req[i].ticker, req[i].form_type)},
          ![i].pc = "resolve"]
    /\ UNCHANGED <<up_hist, up_recent, up_ver, files, dirs, current_filings_cache, notMain>>

\* SearchFilingService.execute, line 140: get_latest
SearchResolve(i) ==
    /\ req[i].pc = "s_resolve"
    /\ \E usable \in BOOLEAN, feed_ok \in BOOLEAN :
          LET cur == CurrentFilings(current_filings_cache, req[i].ticker,
                                    req[i].form_type, usable, feed_ok)
              lst == ListAvailableNow(req[i].ticker, req[i].form_type,
                                      cur.current_for_company)
              got == GetLatest(req[i].ticker, req[i].form_type, req[i].date,
                               cur.current_for_company)
          IN  /\ current_filings_cache' = cur.cache
              /\ req' = [req EXCEPT
                    ![i].listing = Some(lst),
                    ![i].ver = up_ver,
                    ![i].s_filing = got.filing,
                    ![i].pc = IF got.ok THEN "s_check" ELSE "failed"]
    /\ UNCHANGED <<up_hist, up_recent, up_ver, files, dirs, notMain>>

\* SearchFilingService.execute, lines 143-150: repository.get; on a miss the
\* fetch service is called
SearchCheck(i) ==
    /\ req[i].pc = "s_check"
    /\ LET path == GetPath(req[i].ticker, req[i].form_type,
                           Get(req[i].s_filing).filing_date, req[i].format)
           ds == Mkdir(dirs, EnsureDirPath(req[i].ticker, req[i].form_type))
       IN  /\ dirs' = ds
           /\ req' = [req EXCEPT
                 ![i].mkdirs = @ + 1,
                 ![i].cached_path = IF Exists(files, ds, path) THEN Some(path) ELSE None,
                 ![i].pc = IF Exists(files, ds, path) THEN "search" ELSE "resolve"]
    /\ UNCHANGED <<up_hist, up_recent, up_ver, files, current_filings_cache, notMain>>

\* FetchFilingService.execute, line 43: get_latest; with force_refetch the
\* cache check of line 46 is not made
Resolve(i) ==
    /\ req[i].pc = "resolve"
    /\ \E usable \in BOOLEAN, feed_ok \in BOOLEAN :
          LET cur == CurrentFilings(current_filings_cache, req[i].ticker,
                                    req[i].form_type, usable, feed_ok)
              lst == ListAvailableNow(req[i].ticker, req[i].form_type,
                                      cur.current_for_company)
              got == GetLatest(req[i].ticker, req[i].form_type, req[i].date,
                               cur.current_for_company)
              r1 == [req[i] EXCEPT !.filing = got.filing]
          IN  /\ current_filings_cache' = cur.cache
              /\ req' = [req EXCEPT
                    ![i].listing = Some(lst),
                    ![i].ver = up_ver,
                    ![i].filing = got.filing,
                    ![i].cold = got.ok /\ SavePath(r1) \notin FilePaths(files)
                                       /\ CheckPath(r1) \notin FilePaths(files),
                    ![i].pc = IF ~got.ok THEN "failed"
                              ELSE IF req[i].force_refetch THEN "download"
                              ELSE "check"]
    /\ UNCHANGED <<up_hist, up_recent, up_ver, files, dirs, notMain>>

\* FetchFilingService.execute, line 46: repository.get
Check(i) ==
    /\ req[i].pc = "check"
    /\ LET path == CheckPath(req[i])
           ds == Mkdir(dirs, EnsureDirPath(req[i].ticker, req[i].form_type))
       IN  /\ dirs' = ds
           /\ req' = [req EXCEPT
                 ![i].mkdirs = @ + 1,
                 ![i].cached_path = IF Exists(files, ds, path) THEN Some(path) ELSE None,
                 ![i].pc = IF Exists(files, ds, path) THEN "read" ELSE "download"]
    /\ UNCHANGED <<up_hist, up_recent, up_ver, files, current_filings_cache, notMain>>

\* FetchFilingService.execute, lines 50-51: read the cached file
ReadCached(i) ==
    /\ req[i].pc = "read"
    /\ req' = [req EXCEPT
          ![i].content = ReadText(files, Get(req[i].cached_path)),
          ![i].pc = "stat"]
    /\ UNCHANGED <<up_hist, up_recent, up_ver, files, dirs, current_filings_cache, notMain>>

\* FetchFilingService.execute, line 54: fetcher.fetch
Download(i) ==
    /\ req[i].pc = "download"
    /\ req' = [req EXCEPT
          ![i].content = Rendered(i),
          ![i].fetches = @ + 1,
          ![i].pc = "save"]
    /\ UNCHANGED <<up_hist, up_recent, up_ver, files, dirs, current_filings_cache, notMain>>

\* FetchFilingService.execute, line 65: repository.save
Save(i) ==
    /\ req[i].pc = "save"
    /\ LET path == SavePath(req[i])
       IN  /\ dirs' = Mkdir(dirs, EnsureDirPath(Get(req[i].filing).ticker,
                                                Get(req[i].filing).form_type))
           /\ files' = WriteText(files, path, req[i].content)
           /\ req' = [req EXCEPT
                 ![i].mkdirs = @ + 1,
                 ![i].writes = @ + 1,
                 ![i].overwrote = path \in FilePaths(files),
                 ![i].cached_path = Some(path),
                 ![i].pc = "stat"]
    /\ UNCHANGED <<up_hist, up_recent, up_ver, current_filings_cache, notMain>>

\* FetchFilingService.execute, lines 69-76, and the return to the caller:
\* fetch_filing computes the cached flag (lines 53-59), search goes on
Stat(i) ==
    /\ req[i].pc = "stat"
    /\ req' = [req EXCEPT
          ![i].size_bytes = StatSize(files, Get(req[i].cached_path)),
          ![i].was_cached =
              <<Get(req[i].filing).filing_date, format_map[req[i].format]>>
                  \in req[i].cached_dates,
          ![i].pc = IF req[i].kind = "fetch" THEN "done" ELSE "search"]
    /\ UNCHANGED <<up_hist, up_recent, up_ver, files, dirs, current_filings_cache, notMain>>

\* SearchFilingService.execute, lines 153-167: search the file and return
Search(i) ==
    /\ req[i].pc = "search"
    /\ req' = [req EXCEPT ![i].pc = "done"]
    /\ UNCHANGED <<up_hist, up_recent, up_ver, files, dirs, current_filings_cache, notMain>>

(***************************************************************************)
(* GrepSearcher: ugrep's output for a file, and the parsing of it          *)
(***************************************************************************)

Whitespace == {" ", "\t", "\n"}

\* c in s
Contains(s, c) == \E i \in 1..Len(s) : s[i] = c

FirstIndex(s, c) == CHOOSE i \in 1..Len(s) : s[i] = c /\ \A j \in 1..(i - 1) : s[j] # c

\* s.split(c, 1): one part when c is not in s, otherwise two
SplitFirst(s, c) ==
    IF Contains(s, c)
    THEN << SubSeq(s, 1, FirstIndex(s, c) - 1), SubSeq(s, FirstIndex(s, c) + 1, Len(s)) >>
    ELSE << s >>

\* s.split(c)
RECURSIVE SplitAll(_, _)
SplitAll(s, c) ==
    IF Contains(s, c)
    THEN << SubSeq(s, 1, FirstIndex(s, c) - 1) >>
            \o SplitAll(SubSeq(s, FirstIndex(s, c) + 1, Len(s)), c)
    ELSE << s >>

\* s.strip()
RECURSIVE Strip(_)
Strip(s) ==
    IF s = <<>> THEN s
    ELSE IF Head(s) \in Whitespace THEN Strip(Tail(s))
    ELSE IF s[Len(s)] \in Whitespace THEN Strip(SubSeq(s, 1, Len(s) - 1))
    ELSE s

IsDigit(c) == \E n \in 0..9 : Digits[n + 1] = c

RECURSIVE DecimalValue(_, _)
DecimalValue(s, acc) ==
    IF s = <<>> THEN acc
    ELSE IF Head(s) = "_" THEN DecimalValue(Tail(s), acc)
    ELSE DecimalValue(Tail(s), 10 * acc + (CHOOSE n \in 0..9 : Digits[n + 1] = Head(s)))

\* int(s): None stands for ValueError. Surrounding whitespace and one sign
\* are accepted, and single underscores between digits
IntParse(s) ==
    LET t == Strip(s)
        signed == t # <<>> /\ Head(t) \in {"+", "-"}
        u == IF signed THEN Tail(t) ELSE t
        wellFormed ==
            /\ u # <<>>
            /\ \A i \in 1..Len(u) : IsDigit(u[i]) \/ u[i] = "_"
            /\ IsDigit(u[1]) /\ IsDigit(u[Len(u)])
            /\ \A i \in 1..(Len(u) - 1) : ~(u[i] = "_" /\ u[i + 1] = "_")
    IN  IF ~wellFormed THEN None
        ELSE IF signed /\ Head(t) = "-" THEN Some(0 - DecimalValue(u, 0))
        ELSE Some(DecimalValue(u, 0))

\* str(n) for n >= 0
RECURSIVE IntStr(_)
IntStr(n) == IF n < 10 THEN << Digits[n + 1] >> ELSE IntStr(n \div 10) \o << Digits[(n % 10) + 1] >>

\* the pattern searched for, matched by ugrep -i: a line matches when it
\* holds the letter in either case
Matches(text) == Contains(text, "r") \/ Contains(text, "R")

MatchingLines(file) == {i \in 1..Len(file) : Matches(file[i])}

\* the lines ugrep -n -C<context_lines> prints: the matching lines and the
\* lines within context_lines of one
ShownLines(file, context_lines) ==
    {i \in 1..Len(file) :
        \E m \in MatchingLines(file) : i - m <= context_lines /\ m - i <= context_lines}

\* the output from line i on: "N:text" for a matching line, "N-text" for a
\* context line, "--" between two groups of lines that are not adjacent
\* (separators: whether they are printed at all)
RECURSIVE UgrepFrom(_, _, _, _, _)
UgrepFrom(file, context_lines, separators, i, last) ==
    IF i > Len(file) THEN <<>>
    ELSE IF i \notin ShownLines(file, context_lines)
         THEN UgrepFrom(file, context_lines, separators, i + 1, last)
    ELSE (IF separators /\ last > 0 /\ last < i - 1 THEN <<"-", "-", "\n">> ELSE <<>>)
         \o IntStr(i) \o (IF Matches(file[i]) THEN <<":">> ELSE <<"-">>)
         \o file[i] \o <<"\n">>
         \o UgrepFrom(file, context_lines, separators, i + 1, i)

UgrepStdout(file, context_lines, separators) ==
    UgrepFrom(file, context_lines, separators, 1, 0)

\* ugrep's exit status: 0 found, 1 not found
UgrepReturncode(file) == IF MatchingLines(file) = {} THEN 1 ELSE 0

\* _parse_grep_output, lines 124-132: the loop walks back from line j to
\* the start of the output
RECURSIVE ContextBefore(_, _, _, _)
ContextBefore(lines, j, context_before, context_lines) ==
    IF j < 1 \/ Len(context_before) >= context_lines THEN context_before
    ELSE IF Contains(lines[j], "-")
         THEN ContextBefore(lines, j - 1,
                            << SplitFirst(lines[j], "-")[2] >> \o context_before,
                            context_lines)
    ELSE ContextBefore(lines, j - 1, context_before, context_lines)

\* _parse_grep_output, lines 134-144: the loop stops at the first line
\* without "-"
RECURSIVE ContextAfter(_, _, _, _)
ContextAfter(lines, j, context_after, context_lines) ==
    IF j > Len(lines) \/ Len(context_after) >= context_lines THEN context_after
    ELSE IF Contains(lines[j], "-")
         THEN ContextAfter(lines, j + 1,
                           Append(context_after, SplitFirst(lines[j], "-")[2]),
                           context_lines)
    ELSE context_after

\* _parse_grep_output, lines 111-158: the while loop from line i on
RECURSIVE ParseFrom(_, _, _)
ParseFrom(lines, i, context_lines) ==
    IF i > Len(lines) THEN <<>>
    ELSE IF Strip(lines[i]) = <<>> THEN ParseFrom(lines, i + 1, context_lines)
    ELSE IF Contains(lines[i], ":") /\ IntParse(SplitFirst(lines[i], ":")[1]) # None
         THEN << [ line_number    |-> Get(IntParse(SplitFirst(lines[i], ":")[1])),
                   line_content   |-> SplitFirst(lines[i], ":")[2],
                   context_before |-> ContextBefore(lines, i - 1, <<>>, context_lines),
                   context_after  |-> ContextAfter(lines, i + 1, <<>>, context_lines) ] >>
              \o ParseFrom(lines, i + 1, context_lines)
    ELSE ParseFrom(lines, i + 1, context_lines)

\* GrepSearcher._parse_grep_output
ParseGrepOutput(output, context_lines) ==
    IF Strip(output) = <<>> THEN <<>>
    ELSE ParseFrom(SplitAll(output, "\n"), 1, context_lines)

\* a slice that starts one element late
SliceFromNext(seq, a, b) ==
    SubSeq(seq, a + 2, IF b < Len(seq) THEN b ELSE Len(seq))

\* seq[a:b] for a, b >= 0
PySlice(seq, a, b) ==
    SubSeq(seq, a + 1, IF b < Len(seq) THEN b ELSE Len(seq))

\* only the exit status of a search with matches
OnlyFoundOk(returncode) == returncode = 0

\* search, line 54: the exit statuses that are not an error
ReturncodeOk(returncode) == returncode \in {0, 1}

CountOfPage(matches, page) == Len(page)

\* search, line 59
TotalCount(matches, page) == Len(matches)

\* GrepSearcher.search, lines 54-62, on a finished ugrep process
GrepSearch(returncode, stdout, context_lines, max_results, offset) ==
    IF ~ReturncodeOk(returncode)
    THEN [raised |-> TRUE, matches |-> <<>>, total_count |-> 0]
    ELSE LET matches == ParseGrepOutput(stdout, context_lines)
             page == PySlice(matches, offset, offset + max_results)
         IN  [raised |-> FALSE, matches |-> page,
              total_count |-> TotalCount(matches, page)]

(***************************************************************************)
(* SpecSearch: search applied to bounded files                             *)
(***************************************************************************)

MaxLines == 4
MaxContext == 1
MaxPage == 2

\* the texts of the lines of a file: with and without the pattern, with the
\* characters the parser splits on
LineTexts ==
    { <<"r">>, <<"x">>, <<"R", "-", "1", ":", "x">>, <<"7", ":", "x", "-", "y">> }

SearchFiles == UNION { [1..n -> LineTexts] : n \in 0..MaxLines }

InitSearchVars ==
    /\ s_file \in SearchFiles
    /\ s_call = None
    /\ s_result = None

\* search(file_path, pattern, context_lines, max_results, offset) with ugrep
\* running to its end
CallSearch ==
    /\ s_call = None
    /\ \E context_lines \in 0..MaxContext, max_results \in 0..MaxPage,
          offset \in 0..MaxLines, separators \in BOOLEAN :
          /\ context_lines > 0 => separators
          /\ s_call' = Some([context_lines |-> context_lines, max_results |-> max_results,
                             offset |-> offset, separators |-> separators,
                             timed_out |-> FALSE,
                             returncode |-> UgrepReturncode(s_file)])
          /\ s_result' = Some(GrepSearch(UgrepReturncode(s_file),
                                         UgrepStdout(s_file, context_lines, separators),
                                         context_lines, max_results, offset))
    /\ UNCHANGED <<s_file, notSearch>>

\* search with ugrep failing (exit status 2 or more: unreadable file, bad
\* pattern) or not ending within 30 seconds
CallSearchFailing ==
    /\ s_call = None
    /\ \E timed_out \in BOOLEAN :
          /\ s_call' = Some([context_lines |-> 0, max_results |-> 0, offset |-> 0,
                             separators |-> FALSE, timed_out |-> timed_out,
                             returncode |-> IF timed_out THEN 0 - 9 ELSE 2])
          /\ s_result' = Some(IF timed_out
                              THEN [raised |-> TRUE, matches |-> <<>>, total_count |-> 0]
                              ELSE GrepSearch(2, <<>>, 0, 0, 0))
    /\ UNCHANGED <<s_file, notSearch>>

(***************************************************************************)
(* SpecCache: the operations of FilesystemCache on one cache root          *)
(***************************************************************************)

\* an optional string argument that is given and not empty
Given(o) == o # None /\ Get(o) # <<>>

\* a cache root taken to be there
AssumeCacheDir(ds) == TRUE

\* self.cache_dir.exists()
CacheDirExists(ds) == cache_dir \in ds

\* the files list_all and get_disk_usage walk over: those two directory
\* levels under the cache root
WalkedFiles(fs) ==
    { x \in fs : /\ Len(x[1]) = Len(cache_dir) + 3
                 /\ SubSeq(x[1], 1, Len(cache_dir)) = cache_dir }

\* a comparison that tells the cases of letters apart
NameEqualsFilter(name, filter) == name = filter

\* the comparison of a directory name with a filter in list_all
NameIsFilter(name, filter) == Upper(name) = Upper(filter)

CachedFiling(x) ==
    [ ticker      |-> x[1][Len(cache_dir) + 1],
      form_type   |-> x[1][Len(cache_dir) + 2],
      filing_date |-> Stem(x[1][Len(cache_dir) + 3]),
      path        |-> x[1],
      size_bytes  |-> Len(x[2]),
      format      |-> Tail(Suffix(x[1][Len(cache_dir) + 3])) ]

\* FilesystemCache.list_all(ticker, form_type), either filter optional;
\* iterdir of a directory that does not exist raises
ListAllFiltered(fs, ds, ticker, form_type) ==
    IF ~CacheDirExists(ds) THEN [raised |-> FALSE, value |-> {}]
    ELSE IF cache_dir \notin ds THEN [raised |-> TRUE, value |-> {}]
    ELSE [ raised |-> FALSE,
           value |->
             { CachedFiling(x) : x \in
                 { x \in WalkedFiles(fs) :
                     /\ Given(ticker) =>
                           NameIsFilter(x[1][Len(cache_dir) + 1], Get(ticker))
                     /\ Given(form_type) =>
                           NameIsFilter(x[1][Len(cache_dir) + 2], Get(form_type))
                     /\ Suffix(x[1][Len(cache_dir) + 3]) \in {Ext[f] : f \in Formats} } } ]

RECURSIVE TotalSize(_)
TotalSize(fs) ==
    IF fs = {} THEN 0
    ELSE LET x == CHOOSE x \in fs : TRUE IN Len(x[2]) + TotalSize(fs \ {x})

\* FilesystemCache.get_disk_usage
GetDiskUsage(fs, ds) ==
    IF ~CacheDirExists(ds) THEN [raised |-> FALSE, value |-> 0]
    ELSE IF cache_dir \notin ds THEN [raised |-> TRUE, value |-> 0]
    ELSE [raised |-> FALSE, value |-> TotalSize(WalkedFiles(fs))]

CDate == <<"2", "0", "2", "4", "-", "0", "1", "-", "0", "9">>

Key(ticker, form_type, format) ==
    [ticker |-> ticker, form_type |-> form_type, filing_date |-> CDate, format |-> format]

\* the cache keys saved and looked up: two that differ in case only, a second
\* format, an amendment, a second company
CKeys ==
    { Key(<<"t", "s", "l", "a">>, F10K, "text"),
      Key(<<"T", "S", "L", "A">>, <<"1", "0", "-", "k">>, "text"),
      Key(<<"T", "S", "L", "A">>, F10K, "markdown"),
      Key(<<"T", "S", "L", "A">>, F10KA, "text"),
      Key(<<"a">>, F10K, "text") }

CContents == { <<"x">>, <<"x", "\n", "y">> }

CTickerFilters ==
    { None, Some(<<>>), Some(<<"t", "s", "l", "a">>), Some(<<"T", "S", "L", "A">>),
      Some(<<"A">>) }
CFormFilters == { None, Some(F10K), Some(<<"1", "0", "-", "k">>) }

KeyPath(k) == GetPath(k.ticker, k.form_type, k.filing_date, k.format)

NoArgs == [ticker |-> None, form_type |-> None, key |-> None, content |-> <<>>,
           again |-> FALSE, same_state |-> FALSE]

InitCacheVars ==
    /\ c_files = {}
    /\ c_dirs = {}
    /\ c_call = None
    /\ c_result = None

\* save(content): again records that the path held this content before,
\* same_state that the call left files and directories as they were
CacheSave ==
    \E k \in CKeys, content \in CContents :
        LET path == KeyPath(k)
            ds == Mkdir(c_dirs, EnsureDirPath(k.ticker, k.form_type))
            fs == WriteText(c_files, path, content)
        IN  /\ c_dirs' = ds
            /\ c_files' = fs
            /\ c_call' = Some([NoArgs EXCEPT !.key = Some(k), !.content = content,
                                 !.again = (<<path, content>> \in c_files),
                                 !.same_state = (fs = c_files /\ ds = c_dirs)]
                              @@ [op |-> "save"])
            /\ c_result' = Some([raised |-> FALSE, value |-> path])
            /\ UNCHANGED notCache

\* exists(ticker, form_type, filing_date, format)
CacheExists ==
    \E k \in CKeys :
        LET ds == Mkdir(c_dirs, EnsureDirPath(k.ticker, k.form_type))
        IN  /\ c_dirs' = ds
            /\ c_call' = Some([NoArgs EXCEPT !.key = Some(k)] @@ [op |-> "exists"])
            /\ c_result' = Some([raised |-> FALSE,
                                 value |-> Exists(c_files, ds, KeyPath(k))])
            /\ UNCHANGED <<c_files, notCache>>

\* list_all(ticker, form_type)
CacheListAll ==
    \E ticker \in CTickerFilters, form_type \in CFormFilters :
        /\ c_call' = Some([NoArgs EXCEPT !.ticker = ticker, !.form_type = form_type]
                          @@ [op |-> "list_all"])
        /\ c_result' = Some(ListAllFiltered(c_files, c_dirs, ticker, form_type))
        /\ UNCHANGED <<c_files, c_dirs, notCache>>

\* get_disk_usage()
CacheDiskUsage ==
    /\ c_call' = Some(NoArgs @@ [op |-> "get_disk_usage"])
    /\ c_result' = Some(GetDiskUsage(c_files, c_dirs))
    /\ UNCHANGED <<c_files, c_dirs, notCache>>

(***************************************************************************)
(* SpecTool: the try/except of the MCPHandlers methods around the services *)
(***************************************************************************)

\* the tool methods and the calls each makes inside its try block
ToolSteps ==
    [ fetch_filing  |-> {"list_all", "get_latest", "get", "read_text", "count_lines",
                         "fetch", "save", "stat"},
      search_filing |-> {"get_latest", "get", "fetch_filing.execute", "search"},
      list_filings  |-> {"list_available", "list_all"},
      list_cached   |-> {"list_all", "get_disk_usage"} ]

ToolNames == DOMAIN ToolSteps

\* the exception classes the calls raise: not found and the ticker-less
\* upstream errors (ValueError), the per-ticker upstream errors, storage
\* errors, ugrep errors, an unknown format
ExceptionClasses ==
    {"ValueError", "ReadTimeout", "HTTPError", "OSError", "RuntimeError", "KeyError"}

\* str(e)
ExceptionTexts == { <<>>, <<"n", "f">>, <<"4", "2", "9">> }

\* the text before str(e) in the error of each method
ErrorPrefix ==
    [ fetch_filing  |-> <<"Failed to fetch filing: ">>,
      search_filing |-> <<"Failed to search filing: ">>,
      list_filings  |-> <<"Failed to list filings: ">>,
      list_cached   |-> <<"Failed to list cached filings: ">> ]

CaughtIfValueError(class) == class = "ValueError"

\* except Exception: every class above derives from Exception
Caught(class) == class \in ExceptionClasses

\* a method's return or raise, given what happened in its try block:
\* None when every call returned, otherwise the exception raised
HandlerOutcome(tool, raised) ==
    IF raised = None
    THEN [returned |-> TRUE, record |-> [success |-> TRUE, error |-> <<>>]]
    ELSE IF Caught(Get(raised).class)
    THEN [returned |-> TRUE,
          record |-> [success |-> FALSE, error |-> ErrorPrefix[tool] \o Get(raised).text]]
    ELSE [returned |-> FALSE, record |-> [success |-> FALSE, error |-> <<>>]]

InitToolVars ==
    /\ t_call = None
    /\ t_result = None

\* a tool call whose services all return
ToolCallReturns ==
    /\ t_call = None
    /\ \E tool \in ToolNames :
          /\ t_call' = Some([tool |-> tool, raised |-> None])
          /\ t_result' = Some(HandlerOutcome(tool, None))
    /\ UNCHANGED notTool

\* a tool call in which one of the calls made below the handler raises
ToolCallRaises ==
    /\ t_call = None
    /\ \E tool \in ToolNames :
       \E step \in ToolSteps[tool], class \in ExceptionClasses, text \in ExceptionTexts :
          LET raised == Some([step |-> step, class |-> class, text |-> text])
          IN  /\ t_call' = Some([tool |-> tool, raised |-> raised])
              /\ t_result' = Some(HandlerOutcome(tool, raised))
    /\ UNCHANGED notTool

(***************************************************************************)
(* The time-keyed cache of recent-filings results (TTLCache) and the       *)
(* list_available without a ticker that reads and fills it                 *)
(***************************************************************************)

\* _current_filings_cache = TTLCache(ttl_seconds=90, stale_ttl_seconds=86400)
ttl == 90
stale_ttl == 86400

\* a fresh window that includes its end
FreshUpTo(age) == age <= ttl

\* `age < self.ttl`
IsFresh(age) == age < ttl

\* a stale window that includes its end
StaleUpTo(age) == age <= stale_ttl

\* `age < self.stale_ttl`
StaleAcceptable(age) == age < stale_ttl

\* TTLCache.get at the time `time`: the value, whether it is fresh, and the
\* two dictionaries afterwards (an entry that is too old is removed)
TTLCacheGet(cache, timestamps, key, allow_stale, time) ==
    LET kept == [cache |-> cache, timestamps |-> timestamps]
    IN  IF cache[key] # None
        THEN LET age == time - Get(timestamps[key])
             IN  IF IsFresh(age)
                     THEN [value |-> cache[key], is_fresh |-> TRUE] @@ kept
                 ELSE IF allow_stale /\ StaleAcceptable(age)
                     THEN [value |-> cache[key], is_fresh |-> FALSE] @@ kept
                 ELSE [value |-> None, is_fresh |-> FALSE,
                       cache |-> [cache EXCEPT ![key] = None],
                       timestamps |-> [timestamps EXCEPT ![key] = None]]
        ELSE [value |-> None, is_fresh |-> FALSE] @@ kept

\* TTLCache.set at the time `time`
TTLCacheSet(cache, timestamps, key, value, time) ==
    [cache |-> [cache EXCEPT ![key] = Some(value)],
     timestamps |-> [timestamps EXCEPT ![key] = Some(time)]]

\* f"current_filings:{form_type}"
CurrentFilingsKey(form_type) ==
    <<"c", "u", "r", "r", "e", "n", "t", "_", "f", "i", "l", "i", "n", "g",
      "s", ":">> \o form_type

core_forms == <<F10K, F10Q, F20F, F6K, F8K, FS1, FS3, FS4>>

\* form is the start of the form name s
StartsWith(s, form) ==
    Len(form) <= Len(s) /\ SubSeq(s, 1, Len(form)) = form

\* get_current_filings(form=...): the entries of the feed filed under the
\* form or under a variant of it ("S-4 POS" when querying "S-4", line 204);
\* '' selects every entry
RECURSIVE FeedQuery(_, _)
FeedQuery(feed, form) ==
    IF feed = <<>> THEN <<>>
    ELSE IF StartsWith(Head(feed).form, form)
         THEN <<Head(feed)>> \o FeedQuery(Tail(feed), form)
    ELSE FeedQuery(Tail(feed), form)

\* a fan-out that loses the listing of the query that completed first
FanOutLosingFirst(feed, completed) ==
    IF completed = <<>> THEN <<>>
    ELSE LET rest == Tail(completed)
         IN  IF rest = <<>> THEN <<>> ELSE FeedQuery(feed, Head(rest))

\* all_filings of the fan-out: the listings of the per-form queries that
\* completed, in the order of their completion; the queries of the other
\* forms of core_forms raised or were not waited for
RECURSIVE FanOut(_, _)
FanOut(feed, completed) ==
    IF completed = <<>> THEN <<>>
    ELSE FeedQuery(feed, Head(completed)) \o FanOut(feed, Tail(completed))

\* the message of the ValueError that replaces a failure of the feed
FeedError(outcome) ==
    CASE outcome = "timeout" -> "SEC.gov timeout"
      [] outcome = "429" -> "Rate limited by SEC.gov"
      [] OTHER -> "Failed to get latest filings"

\* list_available(None, form_type), lines 135-223, at the time `time`.
\* outcome: what the one get_current_filings call of a single form type
\* does; completed: the per-form queries of the CORE/ALL fan-out that
\* returned, in the order of their completion
ListAvailableNoTicker(cache, timestamps, feed, time, form_type, outcome, completed) ==
    LET cache_key == CurrentFilingsKey(form_type)
        got == TTLCacheGet(cache, timestamps, cache_key, TRUE, time)
        hit == got.is_fresh \/ got.value # None
        fan == form_type \in {CORE, ALL}
        fetched == IF fan THEN FanOut(feed, completed)
                   ELSE FeedQuery(feed, EdgarFormType(form_type))
        failed == ~hit /\ ~fan /\ outcome # "ok"
        current_filings == IF hit THEN Get(got.value) ELSE fetched
        after == IF hit \/ failed
                     THEN [cache |-> got.cache, timestamps |-> got.timestamps]
                 ELSE TTLCacheSet(got.cache, got.timestamps, cache_key,
                                  fetched, time)
    IN  [ cache |-> after.cache,
          timestamps |-> after.timestamps,
          result |->
              [raised |-> failed,
               error |-> IF failed THEN FeedError(outcome) ELSE "",
               filings |-> IF failed THEN <<>>
                           ELSE ListAvailableGlobal(form_type, current_filings),
               is_fresh |-> got.is_fresh,
               from_cache |-> hit,
               feed_calls |-> IF hit THEN 0
                              ELSE IF fan THEN Len(core_forms) ELSE 1] ]

\* the call finds an entry it can use under the key of form_type
Usable(cache, timestamps, time, form_type) ==
    TTLCacheGet(cache, timestamps, CurrentFilingsKey(form_type), TRUE, time).value # None

\* ---- the specification of the time-keyed cache ----

MaxTicks == 3

\* the clock advances by a second, to the end of the fresh window, or by
\* the rest of the stale window
Jumps == {1, ttl - 1, stale_ttl - ttl}

GFormTypes == { F10K, CORE }
GKeys == {CurrentFilingsKey(f) : f \in GFormTypes}

GAnnual ==
    [accession_number |-> AccUniverse[1], form |-> F10K,
     filing_date |-> [y |-> 2024, m |-> 1, d |-> 9],
     cik |-> TickerToCik[LTicker]]
GEvent ==
    [accession_number |-> AccUniverse[2], form |-> F8K,
     filing_date |-> [y |-> 2024, m |-> 1, d |-> 10], cik |-> OtherCik]

\* what the recent-filings feed lists
GFeeds == { <<GEvent>>, <<GEvent, GAnnual>> }

\* the outcomes of one get_current_filings call
GOutcomes == {"ok", "timeout", "429", "error"}

\* the per-form queries of a fan-out that return, in the order of their
\* completion (the feed holds filings of these two forms only)
Completions ==
    { s \in SeqsUpTo({F10K, F8K}, 2) :
          \A i, j \in 1..Len(s) : i # j => s[i] # s[j] }

InitTtlVars ==
    /\ g_now = 0
    /\ g_ticks = 0
    /\ g_feed \in GFeeds
    /\ g_cache = [k \in GKeys |-> None]
    /\ g_timestamps = [k \in GKeys |-> None]
    /\ g_call = None
    /\ g_result = None

\* time passes
Tick ==
    /\ g_ticks < MaxTicks
    /\ \E j \in Jumps : g_now' = g_now + j
    /\ g_ticks' = g_ticks + 1
    /\ UNCHANGED <<g_feed, g_cache, g_timestamps, g_call, g_result>>
    /\ UNCHANGED notTtl

\* the upstream feed lists something else
FeedChanges ==
    /\ \E f \in GFeeds \ {g_feed} : g_feed' = f
    /\ UNCHANGED <<g_now, g_ticks, g_cache, g_timestamps, g_call, g_result>>
    /\ UNCHANGED notTtl

\* list_available(None, form_type)
CallListAvailableNoTicker ==
    \E form_type \in GFormTypes, outcome \in GOutcomes, completed \in Completions :
        LET hit == Usable(g_cache, g_timestamps, g_now, form_type)
            fan == form_type \in {CORE, ALL}
            done == ListAvailableNoTicker(g_cache, g_timestamps, g_feed, g_now,
                                          form_type, outcome, completed)
        IN  \* inputs that the call does not consult are not varied
            /\ (hit \/ fan) => outcome = "ok"
            /\ (hit \/ ~fan) => completed = <<>>
            /\ g_call' = Some([form_type |-> form_type, time |-> g_now,
                               entry |-> g_cache[CurrentFilingsKey(form_type)],
                               timestamp |-> g_timestamps[CurrentFilingsKey(form_type)],
                               feed |-> g_feed, outcome |-> outcome,
                               completed |-> completed])
            /\ g_cache' = done.cache
            /\ g_timestamps' = done.timestamps
            /\ g_result' = Some(done.result)
            /\ UNCHANGED <<g_now, g_ticks, g_feed>>
            /\ UNCHANGED notTtl

(***************************************************************************)
(* SpecFeed: list_available without a ticker for every selector, against   *)
(* feeds that hold variants of forms, with per-form queries that fail      *)
(***************************************************************************)

MaxFeedLen == 2

QFormTypes == { F10K, CORE, ALL }
QKeys == {CurrentFilingsKey(f) : f \in QFormTypes}

\* a filing under a variant of the form S-4
GVariant ==
    [accession_number |-> AccUniverse[3], form |-> FS4POS,
     filing_date |-> [y |-> 2024, m |-> 1, d |-> 10], cik |-> OtherCik]

\* what the recent-filings feed lists: up to MaxFeedLen of three filings
QFeeds ==
    { s \in SeqsUpTo({GAnnual, GEvent, GVariant}, MaxFeedLen) :
          \A i, j \in 1..Len(s) : i # j => s[i] # s[j] }

\* the forms of core_forms the feeds hold no filing of
QuietForms == <<F10Q, F20F, F6K, FS1, FS3>>

\* the per-form queries that return, in the order of their completion: any
\* of the three queries that can bring filings, in any order, and then
\* either all or none of the other five
QCompletions ==
    LET busy == { s \in SeqsUpTo({F10K, F8K, FS4}, 3) :
                     \A i, j \in 1..Len(s) : i # j => s[i] # s[j] }
    IN  busy \cup {s \o QuietForms : s \in busy}

\* the per-form queries of a fan-out that did not return
NotCompleted(completed) == Range(core_forms) \ Range(completed)

InitFeedVars ==
    /\ g_now = 0
    /\ g_ticks = 0
    /\ g_feed \in QFeeds
    /\ g_cache = [k \in QKeys |-> None]
    /\ g_timestamps = [k \in QKeys |-> None]
    /\ g_call = None
    /\ g_result = None

\* list_available(None, form_type) for any selector; in a fan-out,
\* outcome is what happened to the queries that did not return
CallListAvailableAnySelector ==
    \E form_type \in QFormTypes, outcome \in GOutcomes, completed \in QCompletions :
        LET hit == Usable(g_cache, g_timestamps, g_now, form_type)
            fan == form_type \in {CORE, ALL}
            done == ListAvailableNoTicker(g_cache, g_timestamps, g_feed, g_now,
                                          form_type, outcome, completed)
        IN  \* inputs that the call does not consult are not varied
            /\ hit => outcome = "ok"
            /\ (hit \/ ~fan) => completed = <<>>
            /\ (~hit /\ fan) => (outcome = "ok" <=> NotCompleted(completed) = {})
            /\ g_call' = Some([form_type |-> form_type, time |-> g_now,
                               entry |-> g_cache[CurrentFilingsKey(form_type)],
                               timestamp |-> g_timestamps[CurrentFilingsKey(form_type)],
                               feed |-> g_feed, outcome |-> outcome,
                               completed |-> completed])
            /\ g_cache' = done.cache
            /\ g_timestamps' = done.timestamps
            /\ g_result' = Some(done.result)
            /\ UNCHANGED <<g_now, g_ticks, g_feed>>
            /\ UNCHANGED notTtl

(***************************************************************************)
(* SpecExec: FetchFilingService.execute and SearchFilingService.execute    *)
(* run from start to end, for formats inside and outside the table         *)
(***************************************************************************)

\* _get_path, line 27: the table has an entry for the format (the lookup of
\* any other format raises KeyError, before _ensure_dir is called)
KnownFormat(format) == format \in DOMAIN Ext

\* EdgarAdapter.fetch, lines 325-330: the rendering that is downloaded; a
\* format that is neither markdown nor html gets the text
FetchedAs(format) ==
    IF format = "markdown" THEN <<"#", "x", "\n", "y">>
    ELSE IF format = "html" THEN <<"<", "x", ">">>
    ELSE <<"x", "\n", "y", "\n">>

\* content.count('\n')
CountNewlines(content) == Cardinality({i \in 1..Len(content) : content[i] = "\n"})

\* FetchFilingService.execute, line 63: the line count of a download
ContentLineCount(content) == CountNewlines(content) + 1

\* GrepSearcher.count_lines: `wc -l` prints the number of newline characters
\* and the file name; the first word of the output is parsed as an integer
CountLines(fs, path) ==
    LET stdout == IntStr(CountNewlines(ReadText(fs, path))) \o <<" ">> \o PathStr(path)
    IN  Get(IntParse(SplitFirst(stdout, " ")[1]))

\* FetchFilingService.execute on the files fs and directories ds, the
\* upstream listing the filings of `listing`
FetchExecute(fs, ds, listing, ticker, form_type, date, format, force_refetch) ==
    LET got == SelectLatest(listing, date)
        start == [raised |-> FALSE, error |-> "", files |-> fs, dirs |-> ds,
                  path |-> None, metadata_calls |-> 1, content_calls |-> 0,
                  from_cache |-> FALSE, total_lines |-> 0]
    IN  IF ~got.ok THEN [start EXCEPT !.raised = TRUE, !.error = "ValueError"]
        ELSE IF ~force_refetch /\ ~KnownFormat(format)
            THEN [start EXCEPT !.raised = TRUE, !.error = "KeyError"]
        ELSE
            LET filing == Get(got.filing)
                ds1 == IF force_refetch THEN ds
                       ELSE Mkdir(ds, EnsureDirPath(ticker, form_type))
                hit == /\ ~force_refetch
                       /\ Exists(fs, ds1, GetPath(ticker, form_type,
                                                  filing.filing_date, format))
            IN  IF hit
                    THEN [start EXCEPT
                            !.dirs = ds1,
                            !.path = Some(GetPath(ticker, form_type,
                                                  filing.filing_date, format)),
                            !.from_cache = TRUE,
                            !.total_lines =
                                CountLines(fs, GetPath(ticker, form_type,
                                                       filing.filing_date, format))]
                ELSE IF ~KnownFormat(format)
                    THEN [start EXCEPT !.raised = TRUE, !.error = "KeyError",
                                       !.content_calls = 1]
                ELSE LET path == GetPath(filing.ticker, filing.form_type,
                                         filing.filing_date, format)
                     IN  [start EXCEPT
                            !.dirs = Mkdir(ds1, EnsureDirPath(filing.ticker,
                                                              filing.form_type)),
                            !.files = WriteText(fs, path, FetchedAs(format)),
                            !.path = Some(path),
                            !.content_calls = 1,
                            !.total_lines = ContentLineCount(FetchedAs(format))]

\* SearchFilingService.execute up to the call of the searcher
SearchExecute(fs, ds, listing, ticker, form_type, date, format) ==
    LET got == SelectLatest(listing, date)
        start == [raised |-> FALSE, error |-> "", files |-> fs, dirs |-> ds,
                  path |-> None, metadata_calls |-> 1, content_calls |-> 0,
                  from_cache |-> FALSE, total_lines |-> 0]
    IN  IF ~got.ok THEN [start EXCEPT !.raised = TRUE, !.error = "ValueError"]
        ELSE IF ~KnownFormat(format)
            THEN [start EXCEPT !.raised = TRUE, !.error = "KeyError"]
        ELSE
            LET path == GetPath(ticker, form_type, Get(got.filing).filing_date, format)
                ds1 == Mkdir(ds, EnsureDirPath(ticker, form_type))
            IN  IF Exists(fs, ds1, path)
                    THEN [start EXCEPT !.dirs = ds1, !.path = Some(path)]
                ELSE [FetchExecute(fs, ds1, listing, ticker, form_type, date,
                                   format, FALSE)
                         EXCEPT !.metadata_calls = 2]

\* MCPHandlers.list_filings, lines 154-164: the cached filings of the
\* (ticker, filing_date) of a filing, as a map from format to path; of two
\* cached filings of one key and format the map keeps one
CachedInfo(cached, filing) ==
    LET of_key == {c \in cached : /\ c.ticker = filing.ticker
                                  /\ c.filing_date = filing.filing_date}
    IN  [fmt \in {c.format : c \in of_key} |->
            (CHOOSE c \in of_key : c.format = fmt).path]

\* MCPHandlers.list_filings on the result of ListFilingsService.execute:
\* list_available(ticker, form_type) and list_all(ticker, form_type), merged
ListFilings(fs, ds, available, ticker, form_type) ==
    LET cached == ListAllFiltered(fs, ds, ticker, Some(form_type))
    IN  [ raised |-> cached.raised,
          filings |-> IF cached.raised THEN <<>>
                      ELSE [i \in 1..Len(available) |->
                              [filing |-> available[i],
                               cached |-> CachedInfo(cached.value, available[i])]] ]

\* the formats of the calls: two of the table and one outside it
EFormats == {"text", "markdown", "pdf"}

\* what the upstream lists for the company
EListings ==
    { <<>>,
      << ToDomainFiling(UpFiling(3, F10K, 2024, 1, 10), MTicker),
         ToDomainFiling(UpFiling(1, F10K, 2023, 12, 31), MTicker) >> }

InitExecVars ==
    /\ e_files = {}
    /\ e_dirs = {}
    /\ e_call = None
    /\ e_result = None

\* fetch_filing.execute(ticker, form_type, date, format, force_refetch)
ExecuteFetch ==
    \E listing \in EListings, form_type \in MFormTypes, date \in MFilters,
       format \in EFormats, force_refetch \in BOOLEAN :
        LET done == FetchExecute(e_files, e_dirs, listing, MTicker, form_type,
                                 date, format, force_refetch)
        IN  /\ e_call' = Some([op |-> "fetch", ticker |-> Some(MTicker),
                               form_type |-> form_type,
                               date |-> date, format |-> format,
                               force_refetch |-> force_refetch,
                               files |-> e_files, dirs |-> e_dirs])
            /\ e_files' = done.files
            /\ e_dirs' = done.dirs
            /\ e_result' = Some([raised |-> done.raised, error |-> done.error,
                                 path |-> done.path,
                                 metadata_calls |-> done.metadata_calls,
                                 content_calls |-> done.content_calls,
                                 from_cache |-> done.from_cache,
                                 total_lines |-> done.total_lines,
                                 filings |-> <<>>])
            /\ UNCHANGED notExec

\* search_filing.execute(ticker, form_type, pattern, date, format)
ExecuteSearch ==
    \E listing \in EListings, form_type \in MFormTypes, date \in MFilters,
       format \in EFormats :
        LET done == SearchExecute(e_files, e_dirs, listing, MTicker, form_type,
                                  date, format)
        IN  /\ e_call' = Some([op |-> "search", ticker |-> Some(MTicker),
                               form_type |-> form_type,
                               date |-> date, format |-> format,
                               force_refetch |-> FALSE,
                               files |-> e_files, dirs |-> e_dirs])
            /\ e_files' = done.files
            /\ e_dirs' = done.dirs
            /\ e_result' = Some([raised |-> done.raised, error |-> done.error,
                                 path |-> done.path,
                                 metadata_calls |-> done.metadata_calls,
                                 content_calls |-> done.content_calls,
                                 from_cache |-> done.from_cache,
                                 total_lines |-> done.total_lines,
                                 filings |-> <<>>])
            /\ UNCHANGED notExec

\* list_filings(ticker, form_type), with and without a ticker
ExecuteListFilings ==
    \E listing \in EListings, form_type \in MFormTypes,
       ticker \in {None, Some(MTicker)} :
        LET done == ListFilings(e_files, e_dirs, listing, ticker, form_type)
        IN  /\ e_call' = Some([op |-> "list_filings", ticker |-> ticker,
                               form_type |-> form_type,
                               date |-> None, format |-> "text",
                               force_refetch |-> FALSE,
                               files |-> e_files, dirs |-> e_dirs])
            /\ e_result' = Some([raised |-> done.raised,
                                 error |-> IF done.raised THEN "Exception" ELSE "",
                                 path |-> None,
                                 metadata_calls |-> 1, content_calls |-> 0,
                                 from_cache |-> FALSE, total_lines |-> 0,
                                 filings |-> done.filings])
            /\ UNCHANGED <<e_files, e_dirs, notExec>>

(***************************************************************************)
(* SpecFan: the executor block of the ticker-less fan-out (lines 167-182): *)
(* the per-form queries run in worker threads, list_available collects     *)
(* their results and leaves the `with` block                               *)
(***************************************************************************)

\* the fan-out is followed over the first MaxFanForms forms of core_forms,
\* run by MaxWorkers worker threads (eight forms and four threads in the code)
MaxFanForms == 3
MaxWorkers == 2

FanForms == 1..MaxFanForms

\* the futures a worker thread is busy with
Busy == {i \in FanForms : w_futures[i] \in {"running", "hung"}}

\* the futures that are done: fetch_form returned the listing, or [] after
\* an exception
Done == {i \in FanForms : w_futures[i] \in {"returned", "failed"}}

\* futures = {executor.submit(fetch_form, form): form for form in core_forms}
InitFanVars ==
    /\ w_futures = [i \in FanForms |-> "queued"]
    /\ w_all_filings = <<>>
    /\ w_pc = "as_completed"

\* a free worker thread takes the next work item; the executor goes on
\* doing so after list_available has stopped collecting
WorkerStarts(i) ==
    /\ w_futures[i] = "queued"
    /\ Cardinality(Busy) < MaxWorkers
    /\ \A j \in FanForms : j < i => w_futures[j] # "queued"
    /\ w_futures' = [w_futures EXCEPT ![i] = "running"]
    /\ UNCHANGED <<w_all_filings, w_pc, notFan>>

\* get_current_filings returns, or raises and fetch_form returns []
QueryCompletes(i) ==
    /\ w_futures[i] = "running"
    /\ \E how \in {"returned", "failed"} :
          w_futures' = [w_futures EXCEPT ![i] = how]
    /\ UNCHANGED <<w_all_filings, w_pc, notFan>>

\* the upstream never answers the query
QueryHangs(i) ==
    /\ w_futures[i] = "running"
    /\ w_futures' = [w_futures EXCEPT ![i] = "hung"]
    /\ UNCHANGED <<w_all_filings, w_pc, notFan>>

\* as_completed yields a future that is done: all_filings.extend(...)
Collect(i) ==
    /\ w_pc = "as_completed"
    /\ i \in Done
    /\ i \notin Range(w_all_filings)
    /\ w_all_filings' = Append(w_all_filings, i)
    /\ UNCHANGED <<w_futures, w_pc, notFan>>

\* as_completed has yielded every future
AllCollected ==
    /\ w_pc = "as_completed"
    /\ Range(w_all_filings) = FanForms
    /\ w_pc' = "shutdown"
    /\ UNCHANGED <<w_futures, w_all_filings, notFan>>

\* as_completed raises FutureTimeoutError after 20 seconds with futures
\* left; the except clause passes
OverallTimeout ==
    /\ w_pc = "as_completed"
    /\ Done # FanForms
    /\ w_pc' = "shutdown"
    /\ UNCHANGED <<w_futures, w_all_filings, notFan>>

\* the `with` block is left: ThreadPoolExecutor.__exit__ calls
\* shutdown(wait=True), which returns when every work item has run and
\* every worker thread has ended
ShutdownReturns ==
    /\ w_pc = "shutdown"
    /\ Done = FanForms
    /\ w_pc' = "returned"
    /\ UNCHANGED <<w_futures, w_all_filings, notFan>>

(***************************************************************************)
(* SpecRace: two list_available calls for one key of                       *)
(* _current_filings_cache, each in its own worker thread                   *)
(* (asyncio.to_thread); the steps are the single dict operations of        *)
(* TTLCache.get and TTLCache.set                                           *)
(***************************************************************************)

MaxRaceTicks == 2

RaceThreads == {1, 2}

\* how far the clock advances between two steps: a moment, the time after
\* which an entry is not fresh, the time after which it is removed
RaceJumps == {1, ttl, stale_ttl}

\* the entry another request stored before, at time 0
EarlierListing == [by |-> 0]

IdleRaceThread ==
    [pc |-> "idle", age |-> 0, served |-> None, value |-> None, stored_at |-> None]

InitRaceVars ==
    /\ \/ k_cache = None /\ k_timestamps = None
       \/ k_cache = Some(EarlierListing) /\ k_timestamps = Some(0)
    /\ k_now = 0
    /\ k_ticks = 0
    /\ k_thread = [t \in RaceThreads |-> IdleRaceThread]

RaceGoto(t, pc) == k_thread' = [k_thread EXCEPT ![t].pc = pc]

\* time passes
RaceTick ==
    /\ k_ticks < MaxRaceTicks
    /\ \E j \in RaceJumps : k_now' = k_now + j
    /\ k_ticks' = k_ticks + 1
    /\ UNCHANGED <<k_cache, k_timestamps, k_thread, notRace>>

\* list_available calls _current_filings_cache.get(cache_key, allow_stale=True)
RaceCallGet(t) ==
    /\ k_thread[t].pc = "idle"
    /\ RaceGoto(t, "contains")
    /\ UNCHANGED <<k_cache, k_timestamps, k_now, k_ticks, notRace>>

\* get, line 37: if key in self.cache
GetContains(t) ==
    /\ k_thread[t].pc = "contains"
    /\ RaceGoto(t, IF k_cache # None THEN "age" ELSE "fetch")
    /\ UNCHANGED <<k_cache, k_timestamps, k_now, k_ticks, notRace>>

\* get, lines 38-45: age = time.time() - self.timestamps[key] (KeyError when
\* the key has no timestamp) and the branch on it, allow_stale being True
GetAge(t) ==
    /\ k_thread[t].pc = "age"
    /\ k_thread' =
          IF k_timestamps = None THEN [k_thread EXCEPT ![t].pc = "failed"]
          ELSE LET age == k_now - Get(k_timestamps) IN
               [k_thread EXCEPT
                  ![t].age = age,
                  ![t].pc = IF IsFresh(age) \/ StaleAcceptable(age)
                            THEN "read" ELSE "del_cache"]
    /\ UNCHANGED <<k_cache, k_timestamps, k_now, k_ticks, notRace>>

\* get, lines 41 and 44: return self.cache[key], ... (KeyError when the key
\* is gone)
GetRead(t) ==
    /\ k_thread[t].pc = "read"
    /\ k_thread' =
          IF k_cache = None THEN [k_thread EXCEPT ![t].pc = "failed"]
          ELSE [k_thread EXCEPT ![t].served = k_cache, ![t].pc = "done"]
    /\ UNCHANGED <<k_cache, k_timestamps, k_now, k_ticks, notRace>>

\* get, line 47: del self.cache[key] (KeyError when the key is gone)
GetDelCache(t) ==
    /\ k_thread[t].pc = "del_cache"
    /\ IF k_cache = None
       THEN RaceGoto(t, "failed") /\ UNCHANGED k_cache
       ELSE RaceGoto(t, "del_timestamps") /\ k_cache' = None
    /\ UNCHANGED <<k_timestamps, k_now, k_ticks, notRace>>

\* get, line 48: del self.timestamps[key] (KeyError when the key is gone),
\* then line 49: return None, False
GetDelTimestamps(t) ==
    /\ k_thread[t].pc = "del_timestamps"
    /\ IF k_timestamps = None
       THEN RaceGoto(t, "failed") /\ UNCHANGED k_timestamps
       ELSE RaceGoto(t, "fetch") /\ k_timestamps' = None
    /\ UNCHANGED <<k_cache, k_now, k_ticks, notRace>>

\* list_available, lines 151-183: the miss; the upstream returns a listing
RaceFetch(t) ==
    /\ k_thread[t].pc = "fetch"
    /\ k_thread' = [k_thread EXCEPT ![t].value = Some([by |-> t]),
                                    ![t].pc = "set_cache"]
    /\ UNCHANGED <<k_cache, k_timestamps, k_now, k_ticks, notRace>>

\* set, line 52: self.cache[key] = value
SetCache(t) ==
    /\ k_thread[t].pc = "set_cache"
    /\ k_cache' = k_thread[t].value
    /\ RaceGoto(t, "set_timestamps")
    /\ UNCHANGED <<k_timestamps, k_now, k_ticks, notRace>>

\* set, line 53: self.timestamps[key] = time.time()
SetTimestamps(t) ==
    /\ k_thread[t].pc = "set_timestamps"
    /\ k_timestamps' = Some(k_now)
    /\ k_thread' = [k_thread EXCEPT ![t].stored_at = Some(k_now), ![t].pc = "done"]
    /\ UNCHANGED <<k_cache, k_now, k_ticks, notRace>>

(***************************************************************************)
(* SpecWrite: two FetchFilingService.execute calls for one cache key, each *)
(* in its own worker thread; Path.write_text opens the file for writing,   *)
(* which creates or truncates it, writes the text buffer by buffer, each   *)
(* at the position of its own file object, and closes it                   *)
(***************************************************************************)

WriteThreads == {1, 2}

\* the downloaded document, as the buffers write_text writes it in
Document == <<"x", "y", "z">>

\* a byte that was never written (a hole left by a write beyond the end)
Hole == "0"

\* write(buffer) at position pos of a file: the file is extended with holes
\* up to pos, and the buffer replaces what is at pos
WriteAt(content, pos, buffer) ==
    [k \in 1..(IF Len(content) > pos THEN Len(content) ELSE pos + 1) |->
        IF k = pos + 1 THEN buffer
        ELSE IF k <= Len(content) THEN content[k]
        ELSE Hole]

IdleWriteThread ==
    [pc |-> "idle", force_refetch |-> FALSE, from_cache |-> FALSE,
     content |-> <<>>, pos |-> 0, size_bytes |-> 0]

InitWriteVars ==
    /\ d_file \in {None, Some(Document)}
    /\ d_thread = [t \in WriteThreads |-> IdleWriteThread]

\* execute(ticker, form_type, date, format, force_refetch), lines 43-46:
\* with force_refetch the cache is not consulted
WriteStart(t) ==
    /\ d_thread[t].pc = "idle"
    /\ \E force_refetch \in BOOLEAN :
          d_thread' = [d_thread EXCEPT
              ![t].force_refetch = force_refetch,
              ![t].pc = IF force_refetch THEN "download" ELSE "check"]
    /\ UNCHANGED <<d_file, notWrite>>

\* execute, line 46: repository.get, i.e. path.exists()
WriteCheck(t) ==
    /\ d_thread[t].pc = "check"
    /\ d_thread' = [d_thread EXCEPT
          ![t].from_cache = d_file # None,
          ![t].pc = IF d_file # None THEN "read" ELSE "download"]
    /\ UNCHANGED <<d_file, notWrite>>

\* execute, line 50: cached_path.read_text()
WriteReadCached(t) ==
    /\ d_thread[t].pc = "read"
    /\ d_thread' = [d_thread EXCEPT ![t].content = Get(d_file), ![t].pc = "stat"]
    /\ UNCHANGED <<d_file, notWrite>>

\* execute, line 54: fetcher.fetch
WriteDownload(t) ==
    /\ d_thread[t].pc = "download"
    /\ d_thread' = [d_thread EXCEPT ![t].content = Document, ![t].pc = "open"]
    /\ UNCHANGED <<d_file, notWrite>>

\* save, line 45: write_text opens the file with mode 'w'
WriteOpen(t) ==
    /\ d_thread[t].pc = "open"
    /\ d_file' = Some(<<>>)
    /\ d_thread' = [d_thread EXCEPT ![t].pos = 0, ![t].pc = "write"]
    /\ UNCHANGED notWrite

\* save, line 45: write_text writes the next buffer
WriteBuffer(t) ==
    /\ d_thread[t].pc = "write"
    /\ d_thread[t].pos < Len(d_thread[t].content)
    /\ d_file' = Some(WriteAt(Get(d_file), d_thread[t].pos,
                              d_thread[t].content[d_thread[t].pos + 1]))
    /\ d_thread' = [d_thread EXCEPT ![t].pos = @ + 1]
    /\ UNCHANGED notWrite

\* save, lines 45-46: write_text closes the file and save returns the path
WriteClose(t) ==
    /\ d_thread[t].pc = "write"
    /\ d_thread[t].pos = Len(d_thread[t].content)
    /\ d_thread' = [d_thread EXCEPT ![t].pc = "stat"]
    /\ UNCHANGED <<d_file, notWrite>>

\* execute, lines 69-76: cached_path.stat().st_size and the return
WriteStat(t) ==
    /\ d_thread[t].pc = "stat"
    /\ d_thread' = [d_thread EXCEPT ![t].size_bytes = Len(Get(d_file)),
                                    ![t].pc = "done"]
    /\ UNCHANGED <<d_file, notWrite>>

(***************************************************************************)
(* Specifications                                                          *)
(***************************************************************************)

\* The values a specification leaves alone
IdleListVars ==
    /\ l_hist = <<>>
    /\ l_feed = [ok |-> TRUE, filings |-> <<>>]
    /\ l_call = None
    /\ l_result = None

IdleSearchVars ==
    /\ s_file = <<>>
    /\ s_call = None
    /\ s_result = None

IdleCacheVars ==
    /\ c_files = {}
    /\ c_dirs = {}
    /\ c_call = None
    /\ c_result = None

IdleToolVars ==
    /\ t_call = None
    /\ t_result = None

IdleTtlVars ==
    /\ g_now = 0
    /\ g_ticks = 0
    /\ g_feed = <<>>
    /\ g_cache = <<>>
    /\ g_timestamps = <<>>
    /\ g_call = None
    /\ g_result = None

IdleExecVars ==
    /\ e_files = {}
    /\ e_dirs = {}
    /\ e_call = None
    /\ e_result = None

IdleFanVars ==
    /\ w_futures = <<>>
    /\ w_all_filings = <<>>
    /\ w_pc = "idle"

IdleRaceVars ==
    /\ k_cache = None
    /\ k_timestamps = None
    /\ k_now = 0
    /\ k_ticks = 0
    /\ k_thread = <<>>

IdleWriteVars ==
    /\ d_file = None
    /\ d_thread = <<>>

\* every group of variables but g is left at its idle value
IdleBut(g) ==
    /\ g = "path" \/ InitPathVars
    /\ g = "list" \/ IdleListVars
    /\ g = "main" \/ IdleMainVars
    /\ g = "search" \/ IdleSearchVars
    /\ g = "cache" \/ IdleCacheVars
    /\ g = "tool" \/ IdleToolVars
    /\ g = "ttl" \/ IdleTtlVars
    /\ g = "exec" \/ IdleExecVars
    /\ g = "fan" \/ IdleFanVars
    /\ g = "race" \/ IdleRaceVars
    /\ g = "write" \/ IdleWriteVars

InitPath == InitPathVars /\ IdleBut("path")
NextPath == DerivePath
SpecPath == InitPath /\ [][NextPath]_vars

InitList == InitListVars /\ IdleBut("list")
NextList ==
    \/ CallListAvailableTicker
    \/ CallListAvailableGlobal
    \/ CallGetLatestTicker
    \/ CallGetLatestGlobal
SpecList == InitList /\ [][NextList]_vars

Init == InitMainVars /\ IdleBut("main")
Next ==
    \/ Publish
    \/ \E i \in Requests :
          \/ Start(i)
          \/ HandlerListAll(i)
          \/ SearchResolve(i)
          \/ SearchCheck(i)
          \/ Resolve(i)
          \/ Check(i)
          \/ ReadCached(i)
          \/ Download(i)
          \/ Save(i)
          \/ Stat(i)
          \/ Search(i)
Spec == Init /\ [][Next]_vars

InitSearch == InitSearchVars /\ IdleBut("search")
NextSearch ==
    \/ CallSearch
    \/ CallSearchFailing
SpecSearch == InitSearch /\ [][NextSearch]_vars

\* ListCachedService.execute(ticker, form_type): list_all, then
\* get_disk_usage
CacheListCached ==
    \E ticker \in CTickerFilters, form_type \in CFormFilters :
        LET filings == ListAllFiltered(c_files, c_dirs, ticker, form_type)
            disk_usage == GetDiskUsage(c_files, c_dirs)
        IN  /\ c_call' = Some([NoArgs EXCEPT !.ticker = ticker, !.form_type = form_type]
                              @@ [op |-> "list_cached"])
            /\ c_result' = Some([raised |-> filings.raised \/ disk_usage.raised,
                                 value |-> <<filings.value, disk_usage.value>>])
            /\ UNCHANGED <<c_files, c_dirs, notCache>>

InitCache == InitCacheVars /\ IdleBut("cache")
NextCache ==
    \/ CacheSave
    \/ CacheExists
    \/ CacheListAll
    \/ CacheDiskUsage
    \/ CacheListCached
SpecCache == InitCache /\ [][NextCache]_vars

InitTool == InitToolVars /\ IdleBut("tool")
NextTool ==
    \/ ToolCallReturns
    \/ ToolCallRaises
SpecTool == InitTool /\ [][NextTool]_vars

InitTtl == InitTtlVars /\ IdleBut("ttl")
NextTtl ==
    \/ Tick
    \/ FeedChanges
    \/ CallListAvailableNoTicker
SpecTtl == InitTtl /\ [][NextTtl]_vars

InitFeed == InitFeedVars /\ IdleBut("ttl")
NextFeed == CallListAvailableAnySelector
SpecFeed == InitFeed /\ [][NextFeed]_vars

InitExec == InitExecVars /\ IdleBut("exec")
NextExec ==
    \/ ExecuteFetch
    \/ ExecuteSearch
    \/ ExecuteListFilings
SpecExec == InitExec /\ [][NextExec]_vars

InitFan == InitFanVars /\ IdleBut("fan")
NextFan ==
    \/ \E i \in FanForms : WorkerStarts(i)
    \/ \E i \in FanForms : QueryCompletes(i)
    \/ \E i \in FanForms : QueryHangs(i)
    \/ \E i \in FanForms : Collect(i)
    \/ AllCollected
    \/ OverallTimeout
    \/ ShutdownReturns
SpecFan == InitFan /\ [][NextFan]_vars

InitRace == InitRaceVars /\ IdleBut("race")
NextRace ==
    \/ RaceTick
    \/ \E t \in RaceThreads :
          \/ RaceCallGet(t)
          \/ GetContains(t)
          \/ GetAge(t)
          \/ GetRead(t)
          \/ GetDelCache(t)
          \/ GetDelTimestamps(t)
          \/ RaceFetch(t)
          \/ SetCache(t)
          \/ SetTimestamps(t)
SpecRace == InitRace /\ [][NextRace]_vars

InitWrite == InitWriteVars /\ IdleBut("write")
NextWrite ==
    \E t \in WriteThreads :
        \/ WriteStart(t)
        \/ WriteCheck(t)
        \/ WriteReadCached(t)
        \/ WriteDownload(t)
        \/ WriteOpen(t)
        \/ WriteBuffer(t)
        \/ WriteClose(t)
        \/ WriteStat(t)
SpecWrite == InitWrite /\ [][NextWrite]_vars

\* the threads are scheduled, the clock of as_completed runs and a query
\* that is not hung gets its answer
SpecFanLive ==
    /\ InitFan
    /\ [][NextFan]_vars
    /\ \A i \in FanForms : WF_vars(WorkerStarts(i))
    /\ \A i \in FanForms : WF_vars(QueryCompletes(i))
    /\ \A i \in FanForms : WF_vars(Collect(i))
    /\ WF_vars(AllCollected)
    /\ WF_vars(OverallTimeout)
    /\ WF_vars(ShutdownReturns)

(***************************************************************************)
(* Claims on list_available and get_latest                                 *)
(***************************************************************************)

\* The calendar day an ISO date string names, as a number that orders days
DigitVal(c) == Ord(c) - Ord("0")
DayNumber(s) ==
    (DigitVal(s[1]) * 1000 + DigitVal(s[2]) * 100 + DigitVal(s[3]) * 10 + DigitVal(s[4])) * 10000
        + (DigitVal(s[6]) * 10 + DigitVal(s[7])) * 100
        + (DigitVal(s[9]) * 10 + DigitVal(s[10]))

Called(op) == l_call # None /\ Get(l_call).op = op /\ ~Get(l_result).raised

\* the listed filings filed on or after the day d names
Qualifying(filings, d) ==
    {f \in Range(filings) : DayNumber(f.filing_date) >= DayNumber(d)}

\* C6: with a date filter d, get_latest returns a listed filing filed on or
\* after d such that no listed filing filed on or after d is older.
C6_DateFilterOldestQualifying ==
    (Called("get_latest") /\ Truthy(Get(l_call).date)) =>
        LET q == Qualifying(Get(l_result).filings, Get(Get(l_call).date))
            r == Get(l_result).latest
        IN  q # {} =>
               /\ r.ok
               /\ Get(r.filing) \in q
               /\ \A f \in q : DayNumber(Get(r.filing).filing_date) <= DayNumber(f.filing_date)

\* C6 witness: two listed filings of different days qualify and the older
\* one is returned
C6_Witness ==
    /\ Called("get_latest")
    /\ Truthy(Get(l_call).date)
    /\ Get(l_result).latest.ok
    /\ \E f \in Qualifying(Get(l_result).filings, Get(Get(l_call).date)) :
          DayNumber(f.filing_date) > DayNumber(Get(Get(l_result).latest.filing).filing_date)

\* C7: without a date filter, get_latest on a non-empty list returns a listed
\* filing such that no listed filing is newer.
C7_NoFilterNewest ==
    (Called("get_latest") /\ ~Truthy(Get(l_call).date) /\ Get(l_result).filings # <<>>) =>
        LET r == Get(l_result).latest IN
        /\ r.ok
        /\ Get(r.filing) \in Range(Get(l_result).filings)
        /\ \A f \in Range(Get(l_result).filings) :
              DayNumber(f.filing_date) <= DayNumber(Get(r.filing).filing_date)

\* C7 witness: no filter, a list of filings of two days, the newer returned
C7_Witness ==
    /\ Called("get_latest")
    /\ Get(l_call).date = None
    /\ Get(l_result).latest.ok
    /\ \E f \in Range(Get(l_result).filings) :
          DayNumber(f.filing_date) < DayNumber(Get(Get(l_result).latest.filing).filing_date)

\* C9: the list of a per-ticker list_available holds no accession number
\* twice.
C9_NoDuplicateAccession ==
    (Called("list_available") /\ Get(l_call).ticker # None) =>
        LET fs == Get(l_result).filings IN
        \A i, j \in 1..Len(fs) :
            fs[i].accession_number = fs[j].accession_number => i = j

\* C9 witness: the feed holds a filing of the historical listing again, the
\* feed call succeeded, and the filing is listed
C9_Witness ==
    /\ Called("list_available")
    /\ Get(l_call).ticker # None
    /\ l_feed.ok
    /\ \E i \in 1..Len(l_hist), j \in 1..Len(l_feed.filings) :
          /\ l_hist[i].accession_number = l_feed.filings[j].accession_number
          /\ l_feed.filings[j].cik = l_hist[i].cik
          /\ \E f \in Range(Get(l_result).filings) :
                f.accession_number = l_hist[i].accession_number
    /\ Len(Get(l_result).filings) >= 2

\* C10: the list of list_available, with or without a ticker, is in
\* non-increasing order of filing day.
C10_DateDescending ==
    Called("list_available") =>
        LET fs == Get(l_result).filings IN
        \A i, j \in 1..Len(fs) :
            i < j => DayNumber(fs[i].filing_date) >= DayNumber(fs[j].filing_date)

\* C10 witness: a ticker-less list of two filings that the feed gave oldest
\* first
C10_Witness ==
    /\ Called("list_available")
    /\ Get(l_call).ticker = None
    /\ Len(Get(l_result).filings) = 2
    /\ Len(l_feed.filings) = 2
    /\ DayNumber(DateStr(l_feed.filings[1].filing_date))
          < DayNumber(DateStr(l_feed.filings[2].filing_date))

\* Letters that differ only in case
SameLetter(c, d) ==
    \/ c = d
    \/ \E i \in 1..Len(LowerLetters) :
          {c, d} = {LowerLetters[i], UpperLetters[i]}

\* s2 is s1 in another letter-casing
CaseVariant(s1, s2) ==
    /\ Len(s1) = Len(s2)
    /\ \A i \in 1..Len(s1) : SameLetter(s1[i], s2[i])

\* The extension the specification fixes for each format
SpecExt(fmt) ==
    CASE fmt = "text" -> <<"t", "x", "t">>
      [] fmt = "markdown" -> <<"m", "d">>
      [] fmt = "html" -> <<"h", "t", "m", "l">>

\* C5: the path derived for (ticker, form type, date, format) is
\* root/UPPER(ticker)/UPPER(form type)/date.ext with ext fixed by the format,
\* and deriving it again with the ticker and form type in any other
\* letter-casing gives the identical path.
C5_PathDeterminism ==
    p_args # None =>
        LET a == Get(p_args) IN
        /\ \A t2 \in PTickers, f2 \in PForms :
              (CaseVariant(a.ticker, t2) /\ CaseVariant(a.form_type, f2))
                  => GetPath(t2, f2, a.filing_date, a.format) = p_path
        /\ PathStr(p_path) =
              <<"r", "o", "o", "t", "/">> \o Upper(a.ticker) \o <<"/">>
                  \o Upper(a.form_type) \o <<"/">>
                  \o a.filing_date \o <<".">> \o SpecExt(a.format)

\* C5 witness: a path was derived for a lower-case ticker and form type
\* that have other letter-casings among the inputs
C5_Witness ==
    /\ p_args # None
    /\ Get(p_args).ticker = <<"t", "s">>
    /\ Get(p_args).form_type = <<"1", "0", "-", "k", "/", "a">>
    /\ Get(p_args).format = "markdown"
    /\ Len(p_path) = 5

(***************************************************************************)
(* Claims on fetch and search requests (Spec)                              *)
(***************************************************************************)

Finished(r) == r.pc = "done"

\* two requests with the same arguments, the second started after the first
\* returned, nothing else in flight, the upstream the same for both and
\* both resolved to the same filing
Repeats(a, b) ==
    /\ a.kind = "fetch" /\ b.kind = "fetch"
    /\ Finished(a) /\ Finished(b)
    /\ a.alone /\ b.alone
    /\ ~a.force_refetch /\ ~b.force_refetch
    /\ a.form_type = b.form_type /\ a.date = b.date /\ a.format = b.format
    /\ a.ver = b.ver /\ a.filing = b.filing
    /\ a.cold

\* the cache key of a request's resolved filing
KeyOf(r) ==
    <<Get(r.filing).ticker, Get(r.filing).form_type,
      Get(r.filing).filing_date, r.format>>

\* C1: the first non-forced fetch of a filing downloads once and saves; the
\* identical fetch that follows it, the upstream unchanged, downloads
\* nothing and returns the same path and byte size, whatever form type was
\* requested.
C1_SecondFetchFromCache ==
    \A i \in Requests : \A j \in Requests :
        (i < j /\ Repeats(req[i], req[j])) =>
            /\ req[i].fetches = 1 /\ req[i].writes = 1
            /\ req[j].fetches = 0 /\ req[j].writes = 0
            /\ req[j].cached_path = req[i].cached_path
            /\ req[j].size_bytes = req[i].size_bytes

\* C2: the cached flag of a fetch result is true exactly when the request
\* downloaded nothing, false exactly when it downloaded.
C2_CachedFlagExact ==
    \A i \in Requests :
        (req[i].kind = "fetch" /\ Finished(req[i])) =>
            (req[i].was_cached <=> req[i].fetches = 0)

\* C3: a forced fetch never makes the cache check; when its save finds an
\* artifact at the path of the resolved filing and format, it has
\* downloaded exactly once and the step leaves that path, and no new one,
\* holding the downloaded content.
C3_ForceRefetchOverwrites ==
    [][\A i \in Requests :
          /\ req[i].force_refetch => req'[i].pc \notin {"check", "read"}
          /\ ( /\ req[i].force_refetch
               /\ req[i].pc = "save" /\ req'[i].pc # "save"
               /\ SavePath(req[i]) \in FilePaths(files) )
             => /\ req'[i].fetches = 1
                /\ FilePaths(files') = FilePaths(files)
                /\ ReadText(files', SavePath(req[i])) = Rendered(i)
                /\ req'[i].cached_path = Some(SavePath(req[i]))
                /\ \A e \in files : e[1] # SavePath(req[i]) => e \in files'
      ]_vars

C3_Witness ==
    \E i \in Requests :
        /\ req[i].force_refetch /\ req[i].overwrote /\ Finished(req[i])
        /\ req[i].fetches = 1
        /\ ReadText(files, Get(req[i].cached_path)) = Rendered(i)

\* C4: when no request is forced, no two requests download the content of
\* one cache key, and no save replaces an artifact that exists.
C4_AtMostOneDownloadPerKey ==
    (\A i \in Requests : ~req[i].force_refetch) =>
        /\ \A i \in Requests : \A j \in Requests :
              (i # j /\ req[i].fetches >= 1 /\ req[j].fetches >= 1)
                  => KeyOf(req[i]) # KeyOf(req[j])
        /\ \A i \in Requests : ~req[i].overwrote

\* the filings of a listing whose date is at or after d
QualifyingIn(listing, d) ==
    {k \in 1..Len(listing) : StrGeq(listing[k].filing_date, d)}

ResolutionFails(r) ==
    \/ Get(r.listing) = <<>>
    \/ r.date # None /\ QualifyingIn(Get(r.listing), Get(r.date)) = {}

\* C8: a request's metadata resolution fails exactly when the list of
\* list_available is empty or holds no filing dated at or after the date
\* filter; a request that failed downloaded nothing, wrote nothing and
\* created no directory.
C8_NotFoundExact ==
    \A i \in Requests :
        /\ req[i].listing # None =>
              (req[i].pc = "failed" <=> ResolutionFails(req[i]))
        /\ req[i].pc = "failed" =>
              /\ req[i].listing # None
              /\ req[i].fetches = 0 /\ req[i].writes = 0 /\ req[i].mkdirs = 0
              /\ req[i].cached_path = None


(***************************************************************************)
(* Claims on search (SpecSearch)                                           *)
(***************************************************************************)

Searched == s_call # None /\ ~Get(s_result).raised

\* the n-th matching line of a file, in file order
NthMatch(file, n) ==
    CHOOSE i \in MatchingLines(file) :
        Cardinality({j \in MatchingLines(file) : j <= i}) = n

Min(a, b) == IF a < b THEN a ELSE b

\* C11: total_count is the number of matching lines of the whole file,
\* whatever offset and max_results are, and the returned matches are the
\* matching lines number offset+1 .. offset+max_results of the file, as far
\* as there are that many.
C11_TotalAndSlice ==
    Searched =>
        LET c == Get(s_call)
            r == Get(s_result)
            n == Cardinality(MatchingLines(s_file))
        IN  /\ r.total_count = n
            /\ Len(r.matches) =
                  (IF c.offset >= n THEN 0 ELSE Min(c.max_results, n - c.offset))
            /\ \A k \in 1..Len(r.matches) :
                  /\ r.matches[k].line_number = NthMatch(s_file, c.offset + k)
                  /\ r.matches[k].line_content = s_file[NthMatch(s_file, c.offset + k)]

C11_Witness ==
    /\ Searched
    /\ Get(s_call).max_results = 2 /\ Get(s_call).offset = 2
    /\ Get(s_call).context_lines = 1
    /\ Get(s_result).total_count = 3
    /\ Len(Get(s_result).matches) = 1
    /\ Len(s_file) = 4

\* the pages of a file's search with offsets o, o + max_results, ... joined
RECURSIVE PagesFrom(_, _, _, _, _)
PagesFrom(file, context_lines, separators, max_results, o) ==
    IF o >= Cardinality(MatchingLines(file)) THEN <<>>
    ELSE GrepSearch(UgrepReturncode(file), UgrepStdout(file, context_lines, separators),
                    context_lines, max_results, o).matches
         \o PagesFrom(file, context_lines, separators, max_results, o + max_results)

\* C12: the returned matches are in strictly ascending line-number order,
\* and the pages at offsets 0, max_results, 2 * max_results, ... joined are
\* the matching lines of the file, each once and in file order.
C12_AscendingPages ==
    Searched =>
        LET c == Get(s_call)
            r == Get(s_result)
            all == PagesFrom(s_file, c.context_lines, c.separators, c.max_results, 0)
        IN  /\ \A k \in 1..(Len(r.matches) - 1) :
                  r.matches[k].line_number < r.matches[k + 1].line_number
            /\ c.max_results >= 1 =>
                  /\ Len(all) = Cardinality(MatchingLines(s_file))
                  /\ \A k \in 1..Len(all) : all[k].line_number = NthMatch(s_file, k)
                  /\ r.matches = GrepSearch(c.returncode,
                                            UgrepStdout(s_file, c.context_lines, c.separators),
                                            c.context_lines, c.max_results, c.offset).matches

C12_Witness ==
    /\ Searched
    /\ Get(s_call).max_results = 2 /\ Get(s_call).offset = 2
    /\ Len(Get(s_result).matches) = 2
    /\ Get(s_result).matches[1].line_number = 3
    /\ Get(s_result).matches[2].line_number = 4

\* C13: a search whose pattern matches no line of the file (ugrep exits
\* with status 1) raises nothing and returns no match and total_count 0;
\* search raises only when ugrep exits with another status than 0 and 1 or
\* does not end in time.
C13_ZeroMatchNoError ==
    s_call # None =>
        /\ (~Get(s_call).timed_out /\ Get(s_call).returncode = 1) =>
              /\ ~Get(s_result).raised
              /\ Get(s_result).matches = <<>>
              /\ Get(s_result).total_count = 0
        /\ Get(s_result).raised <=>
              (Get(s_call).timed_out \/ Get(s_call).returncode \notin {0, 1})

C13_Witness ==
    /\ s_call # None
    /\ Get(s_call).returncode = 1 /\ ~Get(s_call).timed_out
    /\ MatchingLines(s_file) = {} /\ Len(s_file) >= 2
    /\ Get(s_call).offset = 0 /\ Get(s_call).max_results = 2
    /\ ~Get(s_result).raised /\ Get(s_result).total_count = 0


(***************************************************************************)
(* Claims on the cache operations (SpecCache)                              *)
(***************************************************************************)

CacheCalled(op) == c_call # None /\ Get(c_call).op = op

\* the entries list_all(ticker, form_type) of a key reports for that key
EntriesOfKey(k) ==
    { e \in ListAllFiltered(c_files, c_dirs, Some(k.ticker), Some(k.form_type)).value :
        e.filing_date = k.filing_date /\ e.format = format_map[k.format] }

\* C14: a save of content to a key whose file already holds that content
\* leaves files and directories as they were; afterwards exists is true for
\* the key and list_all reports exactly one entry for it, of the size of
\* the content.
C14_SaveTwiceOneEntry ==
    (CacheCalled("save") /\ Get(c_call).again) =>
        LET k == Get(Get(c_call).key) IN
        /\ Get(c_call).same_state
        /\ Exists(c_files, c_dirs, KeyPath(k))
        /\ Cardinality(EntriesOfKey(k)) = 1
        /\ \A e \in EntriesOfKey(k) : e.size_bytes = Len(Get(c_call).content)

SameKey(k1, k2) ==
    /\ Upper(k1.ticker) = Upper(k2.ticker)
    /\ Upper(k1.form_type) = Upper(k2.form_type)
    /\ k1.filing_date = k2.filing_date
    /\ k1.format = k2.format

\* C15: after save(k, content) the file at the path derived for k holds
\* exactly content, and the save changes the file of no other key.
C15_SaveRoundTrip ==
    [][ (c_call' # None /\ Get(c_call').op = "save") =>
          LET k == Get(Get(c_call').key) IN
          /\ ReadText(c_files', KeyPath(k)) = Get(c_call').content
          /\ Get(c_result').value = KeyPath(k)
          /\ \A k2 \in CKeys :
                ~SameKey(k2, k) =>
                    /\ KeyPath(k2) \in FilePaths(c_files') <=> KeyPath(k2) \in FilePaths(c_files)
                    /\ KeyPath(k2) \in FilePaths(c_files) =>
                          ReadText(c_files', KeyPath(k2)) = ReadText(c_files, KeyPath(k2))
      ]_vars

C15_Witness ==
    /\ CacheCalled("save")
    /\ Get(Get(c_call).key).format = "markdown"
    /\ Get(c_call).content = <<"x">>
    /\ \E k2 \in CKeys :
          /\ k2.format = "text" /\ Upper(k2.ticker) = Upper(Get(Get(c_call).key).ticker)
          /\ k2.form_type = Get(Get(c_call).key).form_type
          /\ KeyPath(k2) \in FilePaths(c_files)
          /\ ReadText(c_files, KeyPath(k2)) = <<"x", "\n", "y">>
    /\ ReadText(c_files, KeyPath(Get(Get(c_call).key))) = <<"x">>

FilterVariant(o1, o2) ==
    \/ ~Given(o1) /\ ~Given(o2)
    \/ Given(o1) /\ Given(o2) /\ CaseVariant(Get(o1), Get(o2))

\* C16: list_all returns the entries of the unfiltered listing whose ticker
\* (form type) is the filter up to letter case, and the same result for
\* every other filter that differs from the one given in letter case only.
C16_FiltersIgnoreCase ==
    CacheCalled("list_all") =>
        LET c == Get(c_call)
            r == Get(c_result)
            all == ListAllFiltered(c_files, c_dirs, None, None).value
        IN  /\ ~r.raised
            /\ r.value =
                 { e \in all :
                     /\ Given(c.ticker) => CaseVariant(e.ticker, Get(c.ticker))
                     /\ Given(c.form_type) => CaseVariant(e.form_type, Get(c.form_type)) }
            /\ \A t2 \in CTickerFilters, f2 \in CFormFilters :
                  (FilterVariant(t2, c.ticker) /\ FilterVariant(f2, c.form_type)) =>
                      ListAllFiltered(c_files, c_dirs, t2, f2) = r

C16_Witness ==
    /\ CacheCalled("list_all")
    /\ Get(c_call).ticker = Some(<<"t", "s", "l", "a">>)
    /\ Get(c_call).form_type = Some(<<"1", "0", "-", "k">>)
    /\ Cardinality(Get(c_result).value) = 2
    /\ \E e \in ListAllFiltered(c_files, c_dirs, None, None).value : e.ticker = <<"A">>

\* C17: while the cache root directory does not exist, list_all returns no
\* entry and get_disk_usage returns 0, alone and in list_cached, and
\* neither raises.
C17_MissingRootDegrades ==
    (c_call # None /\ cache_dir \notin c_dirs) =>
        /\ ~Get(c_result).raised
        /\ CacheCalled("list_all") => Get(c_result).value = {}
        /\ CacheCalled("get_disk_usage") => Get(c_result).value = 0
        /\ CacheCalled("list_cached") => Get(c_result).value = <<{}, 0>>

C17_Witness ==
    /\ CacheCalled("list_cached")
    /\ cache_dir \notin c_dirs
    /\ Get(c_call).ticker = Some(<<"T", "S", "L", "A">>)
    /\ Get(c_result) = [raised |-> FALSE, value |-> <<{}, 0>>]


(***************************************************************************)
(* Claims on the tool surface (SpecTool)                                   *)
(***************************************************************************)

\* t occurs in s as a run of consecutive elements
HasRun(s, t) ==
    \E i \in 0..(Len(s) - Len(t)) : SubSeq(s, i + 1, i + Len(t)) = t

\* C18: every tool call returns a record: success = true when nothing was
\* raised below the handler, otherwise success = false with an error text
\* that holds the text of the exception; no exception leaves the handler.
C18_StructuredResult ==
    t_call # None =>
        LET c == Get(t_call)
            r == Get(t_result)
        IN  /\ r.returned
            /\ r.record.success <=> c.raised = None
            /\ c.raised # None =>
                  /\ HasRun(r.record.error, Get(c.raised).text)
                  /\ Len(r.record.error) > Len(Get(c.raised).text)

C18_Witness ==
    /\ t_call # None
    /\ Get(t_call).tool = "search_filing"
    /\ Get(t_call).raised # None
    /\ Get(Get(t_call).raised).class = "RuntimeError"
    /\ Get(Get(t_call).raised).step = "search"
    /\ Get(Get(t_call).raised).text = <<"n", "f">>
    /\ Get(t_result).returned /\ ~Get(t_result).record.success

(***************************************************************************)
(* Claims on the time-keyed cache of recent-filings results                *)
(***************************************************************************)

\* list_available without a ticker has been called
Listed == g_call # None /\ g_result # None

\* the call found an entry under its key
HadEntry == Listed /\ Get(g_call).entry # None

\* the age of that entry at the call
EntryAge == Get(g_call).time - Get(Get(g_call).timestamp)

\* what a call that goes to the feed gets from it
FeedResult(c) ==
    IF c.form_type \in {CORE, ALL} THEN FanOut(c.feed, c.completed)
    ELSE FeedQuery(c.feed, EdgarFormType(c.form_type))

\* C19: a call of list_available without a ticker that finds the entry of
\* its key younger than the stale-acceptable threshold returns the listing
\* made from the stored result, makes no call to the recent-filings feed
\* and leaves the entry as it is; the lookup reports the entry fresh exactly
\* when it is younger than the fresh threshold.
C19_ServedWithinStaleWindow ==
    (HadEntry /\ EntryAge < stale_ttl) =>
        LET c == Get(g_call)
            r == Get(g_result)
            key == CurrentFilingsKey(c.form_type)
        IN  /\ ~r.raised
            /\ r.from_cache
            /\ r.feed_calls = 0
            /\ r.filings = ListAvailableGlobal(c.form_type, Get(c.entry))
            /\ r.is_fresh = (EntryAge < ttl)
            /\ g_cache[key] = c.entry
            /\ g_timestamps[key] = c.timestamp

\* a stale entry, one second before the end of the stale window, is served
\* although the feed lists something else by then
C19_Witness ==
    /\ HadEntry
    /\ EntryAge = stale_ttl - 1
    /\ ~Get(g_result).is_fresh
    /\ Get(g_result).filings # <<>>
    /\ Get(g_result).filings #
           ListAvailableGlobal(Get(g_call).form_type, FeedResult(Get(g_call)))

\* C20: a call that finds the entry of its key at or past the
\* stale-acceptable threshold is not served from it: the entry is evicted
\* and the feed is called; when the feed answers, its result is stored under
\* the key with the time of the call and the listing is made from it, and
\* when it fails nothing is stored.  No call is served from an entry whose
\* age has reached the stale-acceptable threshold.
C20_EvictedPastStaleWindow ==
    /\ (HadEntry /\ EntryAge >= stale_ttl) =>
           LET c == Get(g_call)
               r == Get(g_result)
               key == CurrentFilingsKey(c.form_type)
           IN  /\ ~r.from_cache
               /\ r.feed_calls >= 1
               /\ IF r.raised
                      THEN g_cache[key] = None /\ g_timestamps[key] = None
                  ELSE /\ g_cache[key] = Some(FeedResult(c))
                       /\ g_timestamps[key] = Some(c.time)
                       /\ r.filings = ListAvailableGlobal(c.form_type, FeedResult(c))
    /\ (Listed /\ Get(g_result).from_cache) =>
           (HadEntry /\ EntryAge < stale_ttl)

\* an entry exactly as old as the stale-acceptable threshold is replaced by
\* a different result of the feed
C20_Witness ==
    /\ HadEntry
    /\ EntryAge = stale_ttl
    /\ ~Get(g_result).raised
    /\ g_cache[CurrentFilingsKey(Get(g_call).form_type)] # Get(g_call).entry
    /\ Get(g_result).filings #
           ListAvailableGlobal(Get(g_call).form_type, Get(Get(g_call).entry))


(***************************************************************************)
(* Claims on list_available without a ticker when the feed fails           *)
(***************************************************************************)

\* the last call went to the feed
WentToFeed == Listed /\ ~Get(g_result).from_cache

\* the last call went to the feed with the fan-out over core_forms
FannedOut == WentToFeed /\ Get(g_call).form_type \in {CORE, ALL}

\* no query of the call returned
NothingReturned(c) ==
    IF c.form_type \in {CORE, ALL} THEN c.completed = <<>> ELSE c.outcome # "ok"

\* C21: a step that creates or replaces an entry of the cache belongs to a
\* call for the key of that entry of which a query to the feed returned; a
\* call of which no query returned leaves the cache as it was.
C21_StoredOnlyAfterSuccess ==
    [][\A k \in DOMAIN g_cache :
          ( /\ <<g_cache'[k], g_timestamps'[k]>> # <<g_cache[k], g_timestamps[k]>>
            /\ g_cache'[k] # None )
          => /\ g_call' # None
             /\ k = CurrentFilingsKey(Get(g_call').form_type)
             /\ ~NothingReturned(Get(g_call'))
      ]_vars

\* C23: a call that goes to the feed and finds it timing out fails with the
\* timeout error, and one that finds it answering 429 fails with the
\* rate-limit error, whatever the selector (in a fan-out: when every query
\* timed out, or was answered 429).
C23_TimeoutAndRateLimitKinds ==
    (WentToFeed /\ NothingReturned(Get(g_call))) =>
        LET c == Get(g_call)
            r == Get(g_result)
        IN  /\ c.outcome = "timeout" => (r.raised /\ r.error = "SEC.gov timeout")
            /\ c.outcome = "429" => (r.raised /\ r.error = "Rate limited by SEC.gov")

\* C27: a fan-out of which every query failed or timed out makes the call
\* fail, and leaves no entry under the key of the call.
C27_TotalFailureFails ==
    (FannedOut /\ Get(g_call).completed = <<>>) =>
        /\ Get(g_result).raised
        /\ g_cache[CurrentFilingsKey(Get(g_call).form_type)] = None

\* the filings of the feed that the queries of the forms in qs return
ReturnedBy(feed, qs) ==
    {f \in Range(feed) : \E q \in qs : StartsWith(f.form, q)}

\* C28: a fan-out returns whichever of its queries fail: the listing holds
\* the filings returned by the queries that completed (those of a core form
\* when the selector is CORE), converted, and no other.
C28_PartialFanOut ==
    FannedOut =>
        LET c == Get(g_call)
            r == Get(g_result)
            got == ReturnedBy(c.feed, Range(c.completed))
            kept == IF c.form_type = CORE
                        THEN {f \in got : f.form \in CORE_FORM_TYPES}
                    ELSE got
        IN  /\ ~r.raised
            /\ Range(r.filings) = {ToDomainFilingNoTicker(f) : f \in kept}
            /\ Len(r.filings) = Cardinality(kept)

\* a fan-out of which one query that had a filing to return failed, and
\* another returned one
C28_Witness ==
    /\ FannedOut
    /\ Get(g_result).filings # <<>>
    /\ ReturnedBy(Get(g_call).feed, NotCompleted(Get(g_call).completed)) # {}
    /\ Get(g_call).outcome = "timeout"

\* C30: from an empty cache, the call with the selector ALL returns the
\* list that the call with the selector CORE returns for the same feed and
\* the same completed queries.
C30_AllSameAsCore ==
    (WentToFeed /\ Get(g_call).form_type = ALL /\ Get(g_call).entry = None) =>
        LET c == Get(g_call)
            empty == [k \in DOMAIN g_cache |-> None]
        IN  Get(g_result).filings =
                ListAvailableNoTicker(empty, empty, c.feed, c.time, CORE,
                                      c.outcome, c.completed).result.filings


(***************************************************************************)
(* Claims on the failure of the same-day supplement (SpecList)             *)
(***************************************************************************)

\* C22: a list_available with a ticker whose call of the recent-filings feed
\* fails does not fail: it returns the list that the historical listing
\* alone gives.
C22_SupplementFailureSwallowed ==
    ( /\ l_call # None
      /\ Get(l_call).op = "list_available"
      /\ Get(l_call).ticker # None
      /\ ~l_feed.ok )
    => /\ ~Get(l_result).raised
       /\ Get(l_result).filings =
              ListAvailableTicker(LTicker, Get(l_call).form_type, l_hist, <<>>)

\* the feed failed and the call returned the company's historical filings
C22_Witness ==
    /\ l_call # None
    /\ Get(l_call).op = "list_available"
    /\ Get(l_call).ticker # None
    /\ ~l_feed.ok
    /\ ~Get(l_result).raised
    /\ Len(Get(l_result).filings) >= 2

\* C25: the set a call with the selector CORE filters by holds 10-K, 10-Q,
\* 8-K, S-1 and SC 13D, and none of 3, 4, 5, DEF 14A and 6-K.
C25_CoreSetMembers ==
    (l_call # None /\ Get(l_call).form_type = CORE) =>
        /\ {F10K, F10Q, F8K, FS1, <<"S", "C", " ", "1", "3", "D">>}
               \subseteq CORE_FORM_TYPES
        /\ CORE_FORM_TYPES \cap
               { <<"3">>, <<"4">>, <<"5">>,
                 <<"D", "E", "F", " ", "1", "4", "A">>, F6K } = {}


(***************************************************************************)
(* Claims on what changes the directory tree (SpecCache)                   *)
(***************************************************************************)

\* C26: a step of the cache that changes the files or the directories under
\* the cache root is a save; exists, list_all, get_disk_usage and the
\* listing of the cache leave both as they were.
C26_OnlySaveChangesDisk ==
    [][(c_files' # c_files \/ c_dirs' # c_dirs) => Get(c_call').op = "save"]_vars


(***************************************************************************)
(* Claims on formats outside the table (SpecExec)                          *)
(***************************************************************************)

\* C24: a fetch or a search with a format that is not text, markdown or
\* html fails before any call to the upstream, for metadata or for
\* content, and leaves the files and the directories under the cache root
\* as they were, forced or not.
C24_InvalidFormatBeforeIO ==
    (e_call # None /\ Get(e_call).format \notin Formats) =>
        /\ Get(e_result).raised
        /\ Get(e_result).metadata_calls = 0
        /\ Get(e_result).content_calls = 0
        /\ e_files = Get(e_call).files
        /\ e_dirs = Get(e_call).dirs


(***************************************************************************)
(* Claims on the termination of the fan-out (SpecFanLive)                  *)
(***************************************************************************)

\* the queries that never complete
Hung == {i \in FanForms : w_futures[i] = "hung"}

\* C29: when no more than one query hangs, the fan-out eventually returns
\* to its caller.
C29_FanOutReturns ==
    [](Cardinality(Hung) <= 1) => <>(w_pc = "returned")

(***************************************************************************)
(* Claims on the deduplication of list_available (SpecList)                *)
(***************************************************************************)

Triple(f) == <<f.ticker, f.form_type, f.filing_date>>

\* the filings a ticker-less list_available sorts: the feed converted, and
\* filtered under the core selector
GlobalCandidates ==
    LET converted == [i \in 1..Len(l_feed.filings) |->
                         ToDomainFilingNoTicker(l_feed.filings[i])]
    IN  IF Get(l_call).form_type = CORE THEN CoreOnly(converted) ELSE converted

\* the first element of seq with the triple of f
FirstOfTriple(seq, f) ==
    seq[CHOOSE i \in 1..Len(seq) :
            /\ Triple(seq[i]) = Triple(f)
            /\ \A j \in 1..(i - 1) : Triple(seq[j]) # Triple(f)]

\* C31: the list of a ticker-less list_available holds at most one filing
\* per (ticker, form type, filing date), and the filing it holds of a triple
\* is the first of that triple among the filings it sorted (the sort by date
\* keeps the filings of one date in their order).
C31_GlobalOnePerTriple ==
    (Called("list_available") /\ Get(l_call).ticker = None) =>
        LET fs == Get(l_result).filings IN
        /\ \A i, j \in 1..Len(fs) : Triple(fs[i]) = Triple(fs[j]) => i = j
        /\ \A i \in 1..Len(fs) :
              /\ fs[i] \in Range(GlobalCandidates)
              /\ fs[i] = FirstOfTriple(GlobalCandidates, fs[i])

\* C31 witness: the feed holds two accessions of one triple and the list
\* holds the first of them only
C31_Witness ==
    /\ Called("list_available")
    /\ Get(l_call).ticker = None
    /\ Len(GlobalCandidates) = 2
    /\ Triple(GlobalCandidates[1]) = Triple(GlobalCandidates[2])
    /\ GlobalCandidates[1].accession_number # GlobalCandidates[2].accession_number
    /\ Get(l_result).filings = << GlobalCandidates[1] >>

\* the first element of seq with the filing date of f
FirstOfDate(seq, f) ==
    seq[CHOOSE i \in 1..Len(seq) :
            /\ seq[i].filing_date = f.filing_date
            /\ \A j \in 1..(i - 1) : seq[j].filing_date # f.filing_date]

\* the merged list a per-ticker list_available sorts: historical entries,
\* then the recent-feed entries not yet seen, filtered under the core selector
TickerCandidates ==
    LET merged == MergeListings(l_hist, RecentOf(l_feed, TickerToCik[LTicker]), LTicker)
    IN  IF Get(l_call).form_type = CORE THEN CoreOnly(merged) ELSE merged

\* C32: the list of a per-ticker list_available holds at most one filing per
\* filing date, whatever the form types and accession numbers filed on that
\* date, and the filing it holds of a date is the first of that date in the
\* merged list.
C32_TickerOnePerDate ==
    (Called("list_available") /\ Get(l_call).ticker # None) =>
        LET fs == Get(l_result).filings IN
        /\ \A i, j \in 1..Len(fs) : fs[i].filing_date = fs[j].filing_date => i = j
        /\ \A i \in 1..Len(fs) :
              /\ fs[i] \in Range(TickerCandidates)
              /\ fs[i] = FirstOfDate(TickerCandidates, fs[i])

\* C32 witness: a historical filing and a recent-feed filing of another form
\* type and accession number on one date; the historical one alone is listed
\* for that date
C32_Witness ==
    /\ Called("list_available")
    /\ Get(l_call).ticker # None
    /\ \E i \in 1..Len(TickerCandidates), j \in 1..Len(TickerCandidates) :
          /\ i <= Len(l_hist)
          /\ j > Len(l_hist)
          /\ TickerCandidates[i].accession_number = l_hist[i].accession_number
          /\ TickerCandidates[i].filing_date = TickerCandidates[j].filing_date
          /\ TickerCandidates[i].form_type # TickerCandidates[j].form_type
          /\ TickerCandidates[i] \in Range(Get(l_result).filings)
          /\ TickerCandidates[j] \notin Range(Get(l_result).filings)

(***************************************************************************)
(* Claims on the context of a match (SpecSearch)                           *)
(***************************************************************************)

\* the lines lo..hi of the file that exist, in file order
Window(file, lo, hi) ==
    LET a == IF lo < 1 THEN 1 ELSE lo
        b == IF hi > Len(file) THEN Len(file) ELSE hi
    IN  IF a > b THEN <<>> ELSE SubSeq(file, a, b)

\* sub holds elements of seq only, in the order of seq
RECURSIVE IsSubsequence(_, _)
IsSubsequence(sub, seq) ==
    IF sub = <<>> THEN TRUE
    ELSE IF seq = <<>> THEN FALSE
    ELSE IF Head(sub) = Head(seq) THEN IsSubsequence(Tail(sub), Tail(seq))
    ELSE IsSubsequence(sub, Tail(seq))

\* C33: for every match at line n that search returns, context_before holds
\* only lines n - context_lines .. n - 1 of the file and context_after only
\* lines n + 1 .. n + context_lines, in file order and with their exact
\* text, and each holds at most context_lines entries.
C33_ContextWithinWindow ==
    Searched =>
        LET c == Get(s_call).context_lines
            ms == Get(s_result).matches
        IN  \A k \in 1..Len(ms) :
                /\ Len(ms[k].context_before) <= c
                /\ Len(ms[k].context_after) <= c
                /\ IsSubsequence(ms[k].context_before,
                                 Window(s_file, ms[k].line_number - c, ms[k].line_number - 1))
                /\ IsSubsequence(ms[k].context_after,
                                 Window(s_file, ms[k].line_number + 1, ms[k].line_number + c))

(***************************************************************************)
(* Claims on the line count of a fetch (SpecExec)                          *)
(***************************************************************************)

\* C34: when a fetch that downloaded an artifact is followed by a fetch that
\* finds the same artifact cached, both report the same total line count.
C34_SameLineCount ==
    [][ ( /\ e_result # None /\ e_result' # None
          /\ Get(e_call).op = "fetch" /\ Get(e_call').op = "fetch"
          /\ ~Get(e_result).raised /\ ~Get(e_result).from_cache
          /\ ~Get(e_result').raised /\ Get(e_result').from_cache
          /\ Get(e_result').path = Get(e_result).path )
        => Get(e_result').total_lines = Get(e_result).total_lines ]_vars

(***************************************************************************)
(* Claims on the file a search reads (Spec)                                *)
(***************************************************************************)

\* C35: a finished search read the artifact of the filing it reports: its
\* file_path is the cache path of the ticker, form type and filing date of
\* SearchResult.filing in the requested format.
C35_SearchedFileOfReportedFiling ==
    \A i \in DOMAIN req :
        (req[i].kind = "search" /\ Finished(req[i])) =>
            Get(req[i].cached_path) =
                GetPath(Get(req[i].s_filing).ticker, Get(req[i].s_filing).form_type,
                        Get(req[i].s_filing).filing_date, req[i].format)

(***************************************************************************)
(* Claims on the annotations of list_filings (SpecExec)                    *)
(***************************************************************************)

\* the path of the artifact of a filing in a format
ArtifactPath(f, format) == GetPath(f.ticker, f.form_type, f.filing_date, format)

\* the paths an entry of the list_filings result is annotated with
AnnotatedPaths(entry) == {entry.cached[fmt] : fmt \in DOMAIN entry.cached}

\* C36: in the result of list_filings, a filing is annotated with a path
\* exactly when that path is the path of an artifact of the filing (its own
\* ticker, form type and filing date) that is on disk, whatever the
\* form-type selector.
C36_AnnotatedIffOnDisk ==
    (e_call # None /\ Get(e_call).op = "list_filings" /\ ~Get(e_result).raised) =>
        \A i \in 1..Len(Get(e_result).filings) :
            LET entry == Get(e_result).filings[i] IN
            AnnotatedPaths(entry) =
                {ArtifactPath(entry.filing, format) : format \in Formats}
                    \cap FilePaths(e_files)

(***************************************************************************)
(* Claims on concurrent use of the time-keyed cache (SpecRace)             *)
(***************************************************************************)

\* the requests that stored a listing
RaceWriters == {t \in RaceThreads : k_thread[t].stored_at # None}

\* C37: no request fails inside get or set because of what the other
\* request does in between, and once both requests are over and one of them
\* stored, the entry is the listing of one writer with that writer's
\* timestamp.
C37_InterleavingHarmless ==
    /\ \A t \in RaceThreads : k_thread[t].pc # "failed"
    /\ ((\A t \in RaceThreads : k_thread[t].pc = "done") /\ RaceWriters # {}) =>
          \E t \in RaceWriters :
              /\ k_cache = k_thread[t].value
              /\ k_timestamps = k_thread[t].stored_at

(***************************************************************************)
(* Claims on concurrent requests for one artifact (SpecWrite)              *)
(***************************************************************************)

\* C38: every request that was served from the cache reports the content
\* and the size of one whole downloaded document.
C38_CacheHitSeesWholeArtifact ==
    \A t \in DOMAIN d_thread :
        (d_thread[t].pc = "done" /\ d_thread[t].from_cache) =>
            /\ d_thread[t].content = Document
            /\ d_thread[t].size_bytes = Len(Document)

(***************************************************************************)
(* Claims on the core selector (SpecList)                                  *)
(***************************************************************************)

====
